---- MODULE Spec2Model ----
(***************************************************************************)
(* Model of the Firestore upload/backup backend (src/server.js, which      *)
(* holds the Express server, lines 1-311, and the Hono server, lines       *)
(* 312-1210) and of the stand-alone upload script (src/unnamed/part_001).  *)
(*                                                                         *)
(* Each program part has its own specification over its own variables;     *)
(* the variables of the other parts stay at their idle values:             *)
(*   SpecCodec   convertToFirestoreFields / parseFirestoreValue            *)
(***************************************************************************)
EXTENDS Integers, Sequences, FiniteSets, TLC

VARIABLES
    \* ---- codec (SpecCodec)
    cpc,        \* "build" | "encoded" | "decoded"
    cv,         \* the native JSON value stored under field FieldKey
    cdepth,     \* how many times cv was wrapped in an array or a map
    cw,         \* convertToFirestoreFields({FieldKey: cv})
    cd,         \* parseFirestoreValue(cw[FieldKey])
    \* ---- validateServiceAccountStructure (SpecStruct)
    spc,        \* "edit" | "validated"
    sa,         \* the candidate key document (a native JSON value)
    sedits,     \* how many fields of the well-formed key were changed
    xres,       \* outcome of the Express validateServiceAccountStructure
    hres,       \* outcome of the Hono validateServiceAccountStructure
    \* ---- the servers (SpecServer, SpecBatch)
    server,                 \* "express" | "hono": which server of src/server.js runs
    isValidServiceAccount,  \* the module-level trust flag (lines 21 and 326)
    db,                     \* Express: the module-level Firestore handle (line 20)
    adminApp,               \* Express: the initialized firebase-admin app
    SERVICE_ACCOUNT,        \* Hono: c.env.SERVICE_ACCOUNT (line 966)
    reqs,                   \* the requests being handled, by slot
    nreq,                   \* number of requests received so far
    lastValidation          \* history: outcome of the validation request that
                            \* completed most recently: "none" | "ok" | "failed"

codecVars == <<cpc, cv, cdepth, cw, cd>>
structVars == <<spc, sa, sedits, xres, hres>>
globalVars == <<isValidServiceAccount, db, adminApp, SERVICE_ACCOUNT>>
serverVars == <<server, globalVars, reqs, nreq, lastValidation>>

vars == <<codecVars, structVars, serverVars>>

(***************************************************************************)
(* Bounds of the model.                                                    *)
(***************************************************************************)
\* Nesting depth of the values given to the codec.
MaxDepth == 2
\* Number of fields of a well-formed key that a candidate key changes.
MaxEdits == 2
\* Number of requests a server receives in one run.
MaxRequests == 3
\* Number of files in one upload-collection form.
MaxFiles == 2
\* Number of documents in one file given to a batch writer.
MaxDocs == 31
\* The batchSize parameter given to the script's writer.
MaxBatchSize == 4
\* Number of documents in one list-documents response.
MaxWireDocs == 2
\* Number of times the clock advances while one request waits for replies.
MaxTicks == 3
\* Seconds by which the clock advances at a time.
TickSeconds == 1800

(***************************************************************************)
(* Native JSON values, as JSON.parse produces them.  A number is           *)
(* (-1)^neg * digits * 10^exp with digits a decimal numeral without        *)
(* leading zero and, unless the number is zero, without trailing zero:     *)
(* two numbers are numerically equal exactly when their records are equal. *)
(***************************************************************************)
NullV == [k |-> "null"]
BoolV(b) == [k |-> "boolean", b |-> b]
NumV(neg, digits, exp) == [k |-> "number", neg |-> neg, digits |-> digits, exp |-> exp]
NaNV == [k |-> "number", nan |-> TRUE]
\* A string is a sequence of tokens (runs of characters); "" is <<>>.
StrV(s) == [k |-> "string", s |-> s]
ArrV(items) == [k |-> "array", items |-> items]
ObjV(fields) == [k |-> "object", fields |-> fields]
\* The value of a missing property.
UndefinedV == [k |-> "undefined"]

\* JavaScript's typeof: null and arrays are "object".
TypeOf(v) ==
    IF v.k \in {"null", "array", "object"} THEN "object" ELSE v.k

IsArray(v) == v.k = "array"

\* Number.isInteger
NumberIsInteger(v) == v.k = "number" /\ "nan" \notin DOMAIN v /\ v.exp >= 0

DigitChars == <<"0", "1", "2", "3", "4", "5", "6", "7", "8", "9">>
DigitChar(d) == DigitChars[d + 1]
IsDigitChar(c) == \E d \in 0..9 : DigitChars[d + 1] = c
CharDigit(c) == CHOOSE d \in 0..9 : DigitChars[d + 1] = c

RECURSIVE Decimal(_)
\* The decimal numeral of a natural number, as a sequence of characters.
Decimal(n) ==
    IF n < 10 THEN <<DigitChar(n)>>
    ELSE Decimal(n \div 10) \o <<DigitChar(n % 10)>>

Zeros(n) == [i \in 1..n |-> "0"]
DigitString(ds) == [i \in 1..Len(ds) |-> DigitChar(ds[i])]

\* The largest decimal exponent n for which Number::toString writes the
\* digits out; above it the exponential notation is used.
ToStringPlainMax == 21

(***************************************************************************)
(* Number.prototype.toString (radix 10) of a finite number: with k digits  *)
(* and n = k + exp, plain digits when k <= n <= 21, a decimal point when   *)
(* 0 < n <= 21 or -6 < n <= 0, and the exponential notation otherwise.     *)
(***************************************************************************)
NumberToString(v) ==
    LET k    == Len(v.digits)
        n    == k + v.exp
        sign == IF v.neg THEN <<"-">> ELSE <<>>
        ds   == DigitString(v.digits)
        e    == n - 1
        mant == IF k = 1 THEN ds ELSE <<ds[1], ".">> \o SubSeq(ds, 2, k)
    IN  IF k <= n /\ n <= ToStringPlainMax THEN sign \o ds \o Zeros(n - k)
        ELSE IF 0 < n /\ n <= ToStringPlainMax
             THEN sign \o SubSeq(ds, 1, n) \o <<".">> \o SubSeq(ds, n + 1, k)
        ELSE IF -6 < n /\ n <= 0
             THEN sign \o <<"0", ".">> \o Zeros(-n) \o ds
        ELSE sign \o mant \o <<"e", IF e >= 0 THEN "+" ELSE "-">>
                  \o Decimal(IF e >= 0 THEN e ELSE -e)

RECURSIVE LeadingDigits(_)
\* The longest prefix of decimal digits of a character sequence.
LeadingDigits(s) ==
    IF s = <<>> \/ ~IsDigitChar(s[1]) THEN <<>>
    ELSE <<CharDigit(s[1])>> \o LeadingDigits(Tail(s))

RECURSIVE StripLeadingZeros(_)
StripLeadingZeros(ds) ==
    IF Len(ds) > 1 /\ ds[1] = 0 THEN StripLeadingZeros(Tail(ds)) ELSE ds

RECURSIVE TrailingZeros(_)
TrailingZeros(ds) ==
    IF Len(ds) > 1 /\ ds[Len(ds)] = 0
    THEN 1 + TrailingZeros(SubSeq(ds, 1, Len(ds) - 1))
    ELSE 0

(***************************************************************************)
(* parseInt(string) with no radix: an optional sign, then the longest run  *)
(* of decimal digits; whatever follows the digits is ignored, and NaN when *)
(* there is no digit.  (The strings of this model never start with white   *)
(* space or "0x".)                                                         *)
(***************************************************************************)
ParseInt(s) ==
    LET neg  == s # <<>> /\ s[1] = "-"
        body == IF s # <<>> /\ s[1] \in {"-", "+"} THEN Tail(s) ELSE s
        ds   == StripLeadingZeros(LeadingDigits(body))
        tz   == IF ds = <<>> THEN 0 ELSE TrailingZeros(ds)
    IN  IF ds = <<>> THEN NaNV
        ELSE IF ds = <<0>> THEN NumV(FALSE, <<0>>, 0)
        ELSE NumV(neg, SubSeq(ds, 1, Len(ds) - tz), tz)

(***************************************************************************)
(* convertToFirestoreFields (src/server.js 861-889).  A wire value is a    *)
(* record with one tag field.  FieldValue is the if-chain of the loop      *)
(* body, HasBranch tells whether any branch of the chain assigns the       *)
(* field.                                                                  *)
(***************************************************************************)
RECURSIVE ConvertToFirestoreFields(_)
RECURSIVE FieldValue(_)

HasBranch(value) ==
    \/ value = NullV
    \/ TypeOf(value) \in {"boolean", "number", "string", "object"}
    \/ IsArray(value)

\* A plausible slip: every number is tagged as a double.
FieldValueAllDouble(value) ==
    IF value = NullV THEN [nullValue |-> NullV]
    ELSE IF TypeOf(value) = "boolean" THEN [booleanValue |-> value]
    ELSE IF TypeOf(value) = "number" THEN [doubleValue |-> value]
    ELSE IF TypeOf(value) = "string" THEN [stringValue |-> value]
    ELSE IF IsArray(value)
         THEN [arrayValue |-> [values |->
                 [i \in 1..Len(value.items) |->
                     ConvertToFirestoreFields([temp |-> value.items[i]]).temp]]]
    ELSE [mapValue |-> [fields |-> ConvertToFirestoreFields(value.fields)]]

FieldValue(value) ==
    IF value = NullV THEN [nullValue |-> NullV]
    ELSE IF TypeOf(value) = "boolean" THEN [booleanValue |-> value]
    ELSE IF TypeOf(value) = "number"
         THEN IF NumberIsInteger(value)
              THEN [integerValue |-> NumberToString(value)]
              ELSE [doubleValue |-> value]
    ELSE IF TypeOf(value) = "string" THEN [stringValue |-> value]
    ELSE IF IsArray(value)
         THEN [arrayValue |-> [values |->
                 [i \in 1..Len(value.items) |->
                     ConvertToFirestoreFields([temp |-> value.items[i]]).temp]]]
    ELSE [mapValue |-> [fields |-> ConvertToFirestoreFields(value.fields)]]

ConvertToFirestoreFields(obj) ==
    [key \in {f \in DOMAIN obj : HasBranch(obj[f])} |-> FieldValue(obj[key])]

(***************************************************************************)
(* parseFirestoreValue (src/server.js 817-836)                             *)
(***************************************************************************)
RECURSIVE ParseFirestoreValue(_)
ParseFirestoreValue(value) ==
    IF "stringValue" \in DOMAIN value THEN value.stringValue
    ELSE IF "integerValue" \in DOMAIN value THEN ParseInt(value.integerValue)
    ELSE IF "doubleValue" \in DOMAIN value THEN value.doubleValue
    ELSE IF "booleanValue" \in DOMAIN value THEN value.booleanValue
    ELSE IF "nullValue" \in DOMAIN value THEN NullV
    ELSE IF "mapValue" \in DOMAIN value
         THEN LET fields == IF "fields" \in DOMAIN value.mapValue
                            THEN value.mapValue.fields ELSE <<>>
              IN  ObjV([f \in DOMAIN fields |-> ParseFirestoreValue(fields[f])])
    ELSE IF "arrayValue" \in DOMAIN value
         THEN LET arr == IF "values" \in DOMAIN value.arrayValue
                         THEN value.arrayValue.values ELSE <<>>
              IN  ArrV([i \in 1..Len(arr) |-> ParseFirestoreValue(arr[i])])
    ELSE NullV

(***************************************************************************)
(* validateServiceAccountStructure: Express (src/server.js 23-43) and Hono *)
(* (src/server.js 328-368).  A call either raises a TypeError or returns.  *)
(***************************************************************************)
requiredFields ==
    << "type", "project_id", "private_key_id", "private_key",
       "client_email", "client_id", "auth_uri", "token_uri",
       "auth_provider_x509_cert_url", "client_x509_cert_url" >>

RequiredFieldSet == {requiredFields[i] : i \in 1..Len(requiredFields)}

ServiceAccountType == <<"service_account">>
EmailSuffix == <<".gserviceaccount.com">>
BeginPrivateKey == <<"BEGIN PRIVATE KEY">>
EndPrivateKey == <<"END PRIVATE KEY">>

\* String.prototype.endsWith and String.prototype.includes
EndsWith(s, suffix) ==
    /\ Len(s) >= Len(suffix)
    /\ SubSeq(s, Len(s) - Len(suffix) + 1, Len(s)) = suffix

Includes(s, part) ==
    \E i \in 1..(Len(s) - Len(part) + 1) : SubSeq(s, i, i + Len(part) - 1) = part

\* Property access on an object: undefined when the property is missing.
Get(obj, field) ==
    IF obj.k = "object" /\ field \in DOMAIN obj.fields
    THEN obj.fields[field] ELSE UndefinedV

\* obj.hasOwnProperty(field)
HasOwnProperty(obj, field) == obj.k = "object" /\ field \in DOMAIN obj.fields

\* ToBoolean
Truthy(v) ==
    CASE v.k \in {"null", "undefined"} -> FALSE
      [] v.k = "boolean" -> v.b
      [] v.k = "string" -> v.s # <<>>
      [] v.k = "number" -> "nan" \notin DOMAIN v /\ v.digits # <<0>>
      [] OTHER -> TRUE

\* Reading a property of null or undefined raises a TypeError.
ReadRaises(obj) == obj.k \in {"null", "undefined"}

\* Calling a string method on v raises unless v is a string.
StringCallRaises(v) == v.k # "string"

hasAllFields(serviceAccount) ==
    \A i \in 1..Len(requiredFields) :
        /\ HasOwnProperty(serviceAccount, requiredFields[i])
        /\ Get(serviceAccount, requiredFields[i]) # NullV
        /\ Get(serviceAccount, requiredFields[i]) # UndefinedV
        /\ Get(serviceAccount, requiredFields[i]) # StrV(<<>>)

isValidType(serviceAccount) ==
    Get(serviceAccount, "type") = StrV(ServiceAccountType)

Raised == [raised |-> TRUE]
Pending == [pending |-> TRUE]
Returned(value) == [raised |-> FALSE, value |-> value]
Thrown(message) == [raised |-> TRUE, message |-> message]

\* Express: the string methods are called on whatever the property holds.
XValidateServiceAccountStructure(serviceAccount) ==
    LET email == Get(serviceAccount, "client_email")
        key   == Get(serviceAccount, "private_key")
        hasValidEmail == EndsWith(email.s, EmailSuffix)
    IN  IF ReadRaises(serviceAccount) THEN Raised
        ELSE IF StringCallRaises(email) THEN Raised
        ELSE IF StringCallRaises(key) THEN Raised
        ELSE Returned(/\ hasAllFields(serviceAccount)
                      /\ isValidType(serviceAccount)
                      /\ hasValidEmail
                      /\ Includes(key.s, BeginPrivateKey)
                      /\ Includes(key.s, EndPrivateKey))

\* Hono: client_email and private_key are tested for truthiness before the
\* string method is called on them.
HValidateServiceAccountStructure(serviceAccount) ==
    LET email == Get(serviceAccount, "client_email")
        key   == Get(serviceAccount, "private_key")
    IN  IF ReadRaises(serviceAccount) THEN Raised
        ELSE IF Truthy(email) /\ StringCallRaises(email) THEN Raised
        ELSE IF Truthy(key) /\ StringCallRaises(key) THEN Raised
        ELSE LET hasValidEmail == Truthy(email) /\ EndsWith(email.s, EmailSuffix)
                 hasValidPrivateKey ==
                     /\ Truthy(key)
                     /\ Includes(key.s, BeginPrivateKey)
                     /\ Includes(key.s, EndPrivateKey)
             IN  Returned([valid |-> /\ hasAllFields(serviceAccount)
                                     /\ isValidType(serviceAccount)
                                     /\ hasValidEmail
                                     /\ hasValidPrivateKey,
                           errors |-> [missingFields |-> ~hasAllFields(serviceAccount),
                                       invalidType |-> ~isValidType(serviceAccount),
                                       invalidEmail |-> ~hasValidEmail,
                                       invalidPrivateKey |-> ~hasValidPrivateKey]])



\* A well-formed service-account key.
GoodValue(f) ==
    CASE f = "type" -> StrV(ServiceAccountType)
      [] f = "client_email" -> StrV(<<"sa@proj.iam">> \o EmailSuffix)
      [] f = "private_key" ->
            StrV(<<"-----">> \o BeginPrivateKey \o <<"-----", "MIIE", "-----">>
                 \o EndPrivateKey \o <<"-----">>)
      [] OTHER -> StrV(<<"x">>)

WellFormedKey == ObjV([f \in RequiredFieldSet |-> GoodValue(f)])


(***************************************************************************)
(* Texts and JSON.parse / JSON.stringify: a text is malformed or is the    *)
(* JSON text of a value.                                                   *)
(***************************************************************************)
BadText == [text |-> "malformed"]
JsonText(v) == [text |-> "json", value |-> v]
JsonParse(t) == IF t.text = "json" THEN Returned(t.value) ELSE Raised
JsonStringify(v) == JsonText(v)

(***************************************************************************)
(* A request being handled: its handler's local variables, its position    *)
(* (pc: the await it is suspended at), the network calls it issued and its *)
(* response.                                                               *)
(***************************************************************************)
NoObs ==
    [structure |-> "none", jwt |-> "none", token |-> "none", project |-> "none",
     database |-> "none", list |-> "none", keys |-> "none"]

NewValidationResult ==
    [valid |-> FALSE,
     checks |-> [structure |-> FALSE, authentication |-> FALSE, iam |-> TRUE,
                 firestore |-> FALSE, firebase |-> FALSE],
     accountInfo |-> NullV,
     errors |-> <<>>]

IdleReq ==
    [kind |-> "none", pc |-> "idle",
     after |-> "none",          \* history: lastValidation when the request arrived
     input |-> <<>>,            \* the uploaded form
     serviceAccount |-> UndefinedV,
     validationResult |-> NewValidationResult,
     accessToken |-> UndefinedV,
     exchange |-> <<>>,         \* token endpoint responses and what getAccessToken made of each
     elapsed |-> 0,             \* seconds since the request's access token was issued
     handle |-> NullV,          \* the credential the request's writes are made with
     firebaseCheck |-> Pending,
     firestoreCheck |-> Pending,
     obs |-> NoObs,             \* history: what each stage's call answered
     calls |-> <<>>,            \* history: the network calls issued, in order
     files |-> <<>>,            \* upload-collection: the files of the form
     f |-> 0,                   \* index of the file being processed (from 1)
     collectionName |-> <<>>,
     collections |-> <<>>,      \* backup: the root collection ids
     documents |-> <<>>,
     normalized |-> <<>>,       \* history: documents as the normalization left it
     i |-> 0,                   \* the document loop's index (from 0)
     successCount |-> 0,
     results |-> <<>>,
     batch |-> <<>>,            \* Express: the writes of the current batch
     batchCount |-> 0,
     attempt |-> 0,             \* commitBatchWithRetry's attempt
     batchSize |-> 0,           \* the script's batchSize parameter
     uploadedCount |-> 0,
     log |-> <<>>,              \* history: writes, commits and waits, in order
     status |-> 0,              \* HTTP status of the response, 0 before it
     body |-> <<>>]

ServerIdle ==
    /\ server = "none"
    /\ isValidServiceAccount = FALSE
    /\ db = NullV
    /\ adminApp = NullV
    /\ SERVICE_ACCOUNT = UndefinedV
    /\ reqs = <<>>
    /\ nreq = 0
    /\ lastValidation = "none"

(***************************************************************************)
(* The idle values of each part's variables, for the specifications of     *)
(* the other parts.                                                        *)
(***************************************************************************)
CodecIdle ==
    /\ cpc = "idle"
    /\ cv = NullV
    /\ cdepth = 0
    /\ cw = <<>>
    /\ cd = NullV

StructIdle ==
    /\ spc = "idle"
    /\ sa = NullV
    /\ sedits = 0
    /\ xres = Pending
    /\ hres = Pending


(***************************************************************************)
(* SpecCodec: a native value is built (a leaf, then wrapped in arrays and  *)
(* maps up to MaxDepth times), stored under the field FieldKey of a        *)
(* document, encoded by convertToFirestoreFields and decoded by            *)
(* parseFirestoreValue.                                                    *)
(***************************************************************************)
FieldKey == "k"

\* Integers: 0, 3, -3, 120000000000000000000 (21 digits), 10^21, 15 * 10^20.
\* Non-integers: 1.5, -0.25.
LeafNumbers ==
    { NumV(FALSE, <<0>>, 0), NumV(FALSE, <<3>>, 0), NumV(TRUE, <<3>>, 0),
      NumV(FALSE, <<1, 2>>, 19), NumV(FALSE, <<1>>, 21), NumV(FALSE, <<1, 5>>, 20),
      NumV(FALSE, <<1, 5>>, -1), NumV(TRUE, <<2, 5>>, -2) }

Leaves ==
    {NullV, BoolV(TRUE), BoolV(FALSE), StrV(<<>>), StrV(<<"a">>), ArrV(<<>>), ObjV(<<>>)}
        \cup LeafNumbers

\* The values put beside the wrapped value in a two-element array or map.
Siblings == {NullV, NumV(FALSE, <<3>>, 0), NumV(FALSE, <<1, 5>>, -1), StrV(<<"a">>)}

CodecInit ==
    /\ cpc = "build"
    /\ cv \in Leaves
    /\ cdepth = 0
    /\ cw = <<>>
    /\ cd = NullV
    /\ StructIdle
    /\ ServerIdle

WrapArray ==
    /\ cpc = "build"
    /\ cdepth < MaxDepth
    /\ \/ cv' = ArrV(<<cv>>)
       \/ \E s \in Siblings : cv' \in {ArrV(<<cv, s>>), ArrV(<<s, cv>>)}
    /\ cdepth' = cdepth + 1
    /\ UNCHANGED <<cpc, cw, cd, structVars, serverVars>>

WrapMap ==
    /\ cpc = "build"
    /\ cdepth < MaxDepth
    /\ \/ cv' = ObjV([a |-> cv])
       \/ \E s \in Siblings : cv' = ObjV([a |-> cv, b |-> s])
    /\ cdepth' = cdepth + 1
    /\ UNCHANGED <<cpc, cw, cd, structVars, serverVars>>

Encode ==
    /\ cpc = "build"
    /\ cw' = ConvertToFirestoreFields([f \in {FieldKey} |-> cv])
    /\ cpc' = "encoded"
    /\ UNCHANGED <<cv, cdepth, cd, structVars, serverVars>>

Decode ==
    /\ cpc = "encoded"
    /\ FieldKey \in DOMAIN cw
    /\ cd' = ParseFirestoreValue(cw[FieldKey])
    /\ cpc' = "decoded"
    /\ UNCHANGED <<cv, cdepth, cw, structVars, serverVars>>

CodecNext == WrapArray \/ WrapMap \/ Encode \/ Decode

SpecCodec == CodecInit /\ [][CodecNext]_vars

(***************************************************************************)
(* Claims on the codec (SpecCodec)                                         *)
(***************************************************************************)

\* C5 (as stated): codec round trip.  For every native JSON value v stored
\* under a field, convertToFirestoreFields keeps the field, and
\* parseFirestoreValue of the encoded field equals v.
C5_RoundTrip ==
    /\ cpc \in {"encoded", "decoded"} => FieldKey \in DOMAIN cw
    /\ cpc = "decoded" => cd = cv

\* The wire tag the encoding rules give a native value.
ExpectedTag(v) ==
    CASE v.k = "null" -> "nullValue"
      [] v.k = "boolean" -> "booleanValue"
      [] v.k = "number" -> IF v.exp >= 0 THEN "integerValue" ELSE "doubleValue"
      [] v.k = "string" -> "stringValue"
      [] v.k = "array" -> "arrayValue"
      [] v.k = "object" -> "mapValue"

RECURSIVE TagsAgree(_, _)
TagsAgree(v, w) ==
    /\ DOMAIN w = {ExpectedTag(v)}
    /\ v.k = "array" =>
          /\ Len(w.arrayValue.values) = Len(v.items)
          /\ \A i \in 1..Len(v.items) : TagsAgree(v.items[i], w.arrayValue.values[i])
    /\ v.k = "object" =>
          /\ DOMAIN w.mapValue.fields = DOMAIN v.fields
          /\ \A f \in DOMAIN v.fields : TagsAgree(v.fields[f], w.mapValue.fields[f])

\* C6: tag precedence of the encoder.  Every value, at every nesting level,
\* carries exactly the tag of its kind: null, boolean, integerValue for an
\* integer-valued number and doubleValue for any other number, string,
\* arrayValue for an array (never mapValue), mapValue for an object.
C6_TagPrecedence ==
    cpc \in {"encoded", "decoded"} =>
        /\ FieldKey \in DOMAIN cw
        /\ TagsAgree(cv, cw[FieldKey])

\* C6 witness: an array holding an integer and a non-integer was encoded.
C6_Witness ==
    /\ cpc = "encoded"
    /\ cv = ArrV(<<NumV(FALSE, <<3>>, 0), NumV(FALSE, <<1, 5>>, -1)>>)
    /\ cw[FieldKey] = [arrayValue |-> [values |->
           << [integerValue |-> <<"3">>],
              [doubleValue |-> NumV(FALSE, <<1, 5>>, -1)] >>]]

(***************************************************************************)
(* SpecStruct: a candidate key document is made from a well-formed key by  *)
(* removing fields or replacing their values (or is the JSON value null),  *)
(* and is given to both versions of validateServiceAccountStructure.       *)
(***************************************************************************)
\* Strings that fail the check made on field f.
BadStrings(f) ==
    CASE f = "type" -> {StrV(<<"authorized_user">>)}
      [] f = "client_email" ->
            {StrV(<<"sa@gmail.com">>), StrV(<<"sa">> \o EmailSuffix \o <<".evil.org">>)}
      [] f = "private_key" ->
            {StrV(<<"-----">> \o BeginPrivateKey \o <<"-----", "MIIE">>),
             StrV(<<"MIIE", "-----">> \o EndPrivateKey \o <<"-----">>)}
      [] OTHER -> {}

OtherValues(f) == {NullV, StrV(<<>>), NumV(FALSE, <<5>>, 0)} \cup BadStrings(f)

StructInit ==
    /\ spc = "edit"
    /\ sa = WellFormedKey
    /\ sedits = 0
    /\ xres = Pending
    /\ hres = Pending
    /\ CodecIdle
    /\ ServerIdle

RemoveField ==
    /\ spc = "edit"
    /\ sedits < MaxEdits
    /\ sa.k = "object"
    /\ \E f \in DOMAIN sa.fields :
          sa' = ObjV([g \in DOMAIN sa.fields \ {f} |-> sa.fields[g]])
    /\ sedits' = sedits + 1
    /\ UNCHANGED <<spc, xres, hres, codecVars, serverVars>>

SetField ==
    /\ spc = "edit"
    /\ sedits < MaxEdits
    /\ sa.k = "object"
    /\ \E f \in DOMAIN sa.fields :
          /\ sa.fields[f] = GoodValue(f)
          /\ \E v \in OtherValues(f) : sa' = ObjV([sa.fields EXCEPT ![f] = v])
    /\ sedits' = sedits + 1
    /\ UNCHANGED <<spc, xres, hres, codecVars, serverVars>>

\* The uploaded file holds the JSON text null.
NullDocument ==
    /\ spc = "edit"
    /\ sedits = 0
    /\ sa' = NullV
    /\ sedits' = MaxEdits
    /\ UNCHANGED <<spc, xres, hres, codecVars, serverVars>>

ValidateStructure ==
    /\ spc = "edit"
    /\ xres' = XValidateServiceAccountStructure(sa)
    /\ hres' = HValidateServiceAccountStructure(sa)
    /\ spc' = "validated"
    /\ UNCHANGED <<sa, sedits, codecVars, serverVars>>

StructNext == RemoveField \/ SetField \/ NullDocument \/ ValidateStructure

SpecStruct == StructInit /\ [][StructNext]_vars

(***************************************************************************)
(* Claims on the structural check (SpecStruct)                             *)
(***************************************************************************)
IsNonEmptyString(v) == v.k = "string" /\ v.s # <<>>

AllPresent(key) ==
    /\ key.k = "object"
    /\ \A f \in RequiredFieldSet :
          /\ f \in DOMAIN key.fields
          /\ key.fields[f] \notin {NullV, StrV(<<>>)}

TypeOk(key) == Get(key, "type") = StrV(ServiceAccountType)

EmailOk(key) ==
    /\ Get(key, "client_email").k = "string"
    /\ EndsWith(Get(key, "client_email").s, EmailSuffix)

PrivateKeyOk(key) ==
    /\ Get(key, "private_key").k = "string"
    /\ Includes(Get(key, "private_key").s, BeginPrivateKey)
    /\ Includes(Get(key, "private_key").s, EndPrivateKey)

\* C8 (as stated): structural validation.  For every candidate key document
\* both versions return a verdict instead of raising; the verdict is valid
\* exactly when all ten fields are present and non-empty, the type is
\* service_account, the email has the service-account suffix and the private
\* key holds both PEM delimiters; the Hono verdict sets the flag of each
\* failed check.
C8_StructuralVerdict ==
    spc = "validated" =>
        /\ ~xres.raised
        /\ ~hres.raised
        /\ xres.value = (AllPresent(sa) /\ TypeOk(sa) /\ EmailOk(sa) /\ PrivateKeyOk(sa))
        /\ hres.value.valid = (AllPresent(sa) /\ TypeOk(sa) /\ EmailOk(sa) /\ PrivateKeyOk(sa))
        /\ hres.value.errors.missingFields = ~AllPresent(sa)
        /\ hres.value.errors.invalidType = ~TypeOk(sa)
        /\ hres.value.errors.invalidEmail = ~EmailOk(sa)
        /\ hres.value.errors.invalidPrivateKey = ~PrivateKeyOk(sa)

\* The part of C8 that the Hono version meets: whenever it returns, the
\* verdict and its four flags are those of the four checks.
C8_HonoVerdictWhenReturned ==
    (spc = "validated" /\ ~hres.raised) =>
        /\ hres.value.valid = (AllPresent(sa) /\ TypeOk(sa) /\ EmailOk(sa) /\ PrivateKeyOk(sa))
        /\ hres.value.errors.missingFields = ~AllPresent(sa)
        /\ hres.value.errors.invalidType = ~TypeOk(sa)
        /\ hres.value.errors.invalidEmail = ~EmailOk(sa)
        /\ hres.value.errors.invalidPrivateKey = ~PrivateKeyOk(sa)

\* Candidates on which a version raises.
C8_ExpressNeverRaises == spc = "validated" => ~xres.raised
C8_HonoNeverRaises == spc = "validated" => ~hres.raised

(***************************************************************************)
(* The servers.  A handler runs without interruption from one await to the *)
(* next; every action below is one such run of one request.  A handler     *)
(* step is an operator from the request q and the module-level variables g *)
(* to their new values; Step installs them.                                *)
(***************************************************************************)
Globals ==
    [isValidServiceAccount |-> isValidServiceAccount, db |-> db,
     adminApp |-> adminApp, SERVICE_ACCOUNT |-> SERVICE_ACCOUNT]

Out(q, g) == [q |-> q, g |-> g]

Step(r, out) ==
    /\ reqs' = [reqs EXCEPT ![r] = out.q]
    /\ isValidServiceAccount' = out.g.isValidServiceAccount
    /\ db' = out.g.db
    /\ adminApp' = out.g.adminApp
    /\ SERVICE_ACCOUNT' = out.g.SERVICE_ACCOUNT
    /\ lastValidation' =
          IF out.q.kind = "validate" /\ out.q.pc = "done"
          THEN IF out.q.status = 200 THEN "ok" ELSE "failed"
          ELSE lastValidation
    /\ UNCHANGED <<server, nreq, codecVars, structVars>>

\* The connection of an answered request is closed; its slot is free again.
Close(r) ==
    /\ reqs[r].pc = "done"
    /\ reqs' = [reqs EXCEPT ![r] = IdleReq]
    /\ UNCHANGED <<server, globalVars, nreq, lastValidation, codecVars, structVars>>

\* A request arrives in a free slot and its handler starts.
Receive(r, q) ==
    /\ reqs[r].pc = "idle"
    /\ nreq < MaxRequests
    /\ nreq' = nreq + 1
    /\ reqs' = [reqs EXCEPT ![r] = [q EXCEPT !.after = lastValidation]]
    /\ UNCHANGED <<server, globalVars, lastValidation, codecVars, structVars>>

\* The response ends the handler.
Respond(q, status, body) ==
    [q EXCEPT !.pc = "done", !.status = status, !.body = body]

Call(api, q) == [api |-> api, token |-> q.accessToken, at |-> q.elapsed]
Issue(q, api) == [q EXCEPT !.calls = Append(@, Call(api, q))]
Observe(q, stage, out) == [q EXCEPT !.obs[stage] = out]

(***************************************************************************)
(* parseMultipartForm (src/server.js 891-910): a form is a sequence of     *)
(* entries; each file entry REPLACES files[key] by a one-element array.    *)
(***************************************************************************)
FormFile(key, name, buffer) == [key |-> key, name |-> name, buffer |-> buffer]

LastIndexOf(form, key) ==
    CHOOSE i \in 1..Len(form) :
        /\ form[i].key = key
        /\ \A j \in (i + 1)..Len(form) : form[j].key # key

ParseMultipartForm(form) ==
    [key \in {form[i].key : i \in 1..Len(form)} |->
        << [originalFilename |-> form[LastIndexOf(form, key)].name,
            buffer |-> form[LastIndexOf(form, key)].buffer] >>]

(***************************************************************************)
(* Hono: validateServiceAccountComplete (370-484) inside                   *)
(* POST /validate-service-account (912-988)                                *)
(***************************************************************************)
\* The bearer token of a 2xx token response that carries access_token.
Token(serviceAccount) == [k |-> "token", iss |-> Get(serviceAccount, "client_email")]

PushError(vr, type) == [vr EXCEPT !.errors = Append(@, [type |-> type])]

\* Lines 950-964: the validation is not valid.
HValidateRespondInvalid(q, g, vr) ==
    Out(Respond([q EXCEPT !.validationResult = vr], 400,
                [success |-> FALSE, checks |-> vr.checks, errors |-> vr.errors]),
        [g EXCEPT !.isValidServiceAccount = FALSE])

\* Lines 966-975: the key is stored and trusted.
HValidateRespondValid(q, g, vr) ==
    Out(Respond([q EXCEPT !.validationResult = vr], 200,
                [success |-> TRUE, checks |-> vr.checks,
                 accountInfo |-> vr.accountInfo, warnings |-> <<>>]),
        [g EXCEPT !.SERVICE_ACCOUNT = JsonStringify(q.serviceAccount),
                  !.isValidServiceAccount = TRUE])

\* Lines 946-975: what the handler does with the validation result.
HValidateReturn(q, g, vr) ==
    IF ~vr.valid THEN HValidateRespondInvalid(q, g, vr)
    ELSE HValidateRespondValid(q, g, vr)

\* Lines 914-948 and 370-402: the form is parsed, the file decoded, the
\* structure checked, and getAccessToken started.
HValidateForm(q, g) ==
    LET files == ParseMultipartForm(q.input)
    IN  IF "serviceAccount" \notin DOMAIN files
        THEN Out(Respond(q, 400, [success |-> FALSE,
                                  error |-> "No service account file uploaded"]),
                 [g EXCEPT !.isValidServiceAccount = FALSE])
        ELSE
        LET parsed == JsonParse(files.serviceAccount[1].buffer)
        IN  IF parsed.raised
            THEN Out(Respond(q, 400, [success |-> FALSE,
                                      error |-> "Invalid JSON format in service account file"]),
                     [g EXCEPT !.isValidServiceAccount = FALSE])
            ELSE
            LET q1 == [q EXCEPT !.serviceAccount = parsed.value]
                structureCheck == HValidateServiceAccountStructure(parsed.value)
                vr == q.validationResult
            IN  IF structureCheck.raised
                THEN HValidateReturn(Observe(q1, "structure", "raised"), g,
                                     PushError(vr, "general"))
                ELSE IF ~structureCheck.value.valid
                THEN HValidateReturn(Observe(q1, "structure", "invalid"), g,
                                     PushError(vr, "structure"))
                ELSE Out([Observe(q1, "structure", "valid") EXCEPT
                              !.validationResult.checks.structure = TRUE,
                              !.pc = "jwt"],
                         g)

\* createJWT (703-752) inside getAccessToken (667-690): the key import or
\* the signature raises, or the token request is sent.
JwtOutcomes == {"throw", "signed"}

HValidateJwt(q, g, out) ==
    IF out = "throw"
    THEN HValidateReturn(Observe(q, "jwt", out), g,
                         PushError(q.validationResult, "authentication"))
    ELSE Out([Issue(Observe(q, "jwt", out), "token") EXCEPT !.pc = "token"], g)

\* The token endpoint answers (692-700): the request fails or is answered
\* non-2xx, or a 2xx answer carries an access_token or none.
TokenOutcomes == {"fail", "ok_token", "ok_notoken"}

\* A property of a parsed response body; a missing one reads undefined.
Prop(data, key) == IF key \in DOMAIN data THEN data[key] ELSE UndefinedV

\* A variant that reports the error code before the description.
GetAccessTokenCodeFirst(response) ==
    IF response.network THEN Thrown([detail |-> StrV(<<"fetch failed">>)])
    ELSE IF ~response.json THEN Thrown([detail |-> StrV(<<"SyntaxError">>)])
    ELSE IF ~response.ok
         THEN Thrown([prefix |-> "Token request failed: ",
                      detail |-> IF Truthy(Prop(response.data, "error"))
                                 THEN Prop(response.data, "error")
                                 ELSE Prop(response.data, "error_description")])
    ELSE Returned(Prop(response.data, "access_token"))

\* Lines 681-700: what getAccessToken makes of the one response to its
\* request; response.json() raises on a body that is not JSON.
GetAccessToken(response) ==
    IF response.network THEN Thrown([detail |-> StrV(<<"fetch failed">>)])
    ELSE IF ~response.json THEN Thrown([detail |-> StrV(<<"SyntaxError">>)])
    ELSE IF ~response.ok
         THEN Thrown([prefix |-> "Token request failed: ",
                      detail |-> IF Truthy(Prop(response.data, "error_description"))
                                 THEN Prop(response.data, "error_description")
                                 ELSE Prop(response.data, "error")])
    ELSE Returned(Prop(response.data, "access_token"))

TokenOutcome(result) ==
    IF result.raised THEN "fail"
    ELSE IF Truthy(result.value) THEN "ok_token" ELSE "ok_notoken"

\* The request keeps the response and the result of its token exchange.
Exchange(q, response) ==
    [Observe(q, "token", TokenOutcome(GetAccessToken(response))) EXCEPT
        !.exchange = Append(@, [response |-> response,
                                result |-> GetAccessToken(response)])]

\* Lines 402-422: the token is kept and validateFirebaseProject sends its
\* request.
HValidateToken(q, g, response) ==
    IF GetAccessToken(response).raised
    THEN HValidateReturn(Exchange(q, response), g,
                         PushError(q.validationResult, "authentication"))
    ELSE LET accessToken == GetAccessToken(response).value
             q1 == [Exchange(q, response) EXCEPT
                        !.accessToken = accessToken,
                        !.validationResult.checks.authentication = Truthy(accessToken)]
         IN  Out([Issue(q1, "project") EXCEPT !.pc = "project"], g)

\* validateFirebaseProject (486-535): valid only for a 2xx answer whose
\* state is ACTIVE.
ProjectOutcomes == {"fail", "inactive", "active"}

FirebaseCheck(out) ==
    IF out = "active" THEN [valid |-> TRUE, projectInfo |-> [state |-> "ACTIVE"]]
    ELSE [valid |-> FALSE, error |-> out]

\* A variant that returns as soon as the project check fails.
HValidateProjectStopping(q, g, out) ==
    LET firebaseCheck == FirebaseCheck(out)
        q1 == [Observe(q, "project", out) EXCEPT
                   !.firebaseCheck = firebaseCheck,
                   !.validationResult.checks.firebase = firebaseCheck.valid]
    IN  IF ~firebaseCheck.valid
        THEN HValidateReturn(q1, g, PushError(q1.validationResult, "firebase"))
        ELSE Out([Issue(q1, "database") EXCEPT !.pc = "database"], g)

\* Lines 419-438: the project check is recorded and validateFirestoreAccess
\* sends its first request.
HValidateProject(q, g, out) ==
    LET firebaseCheck == FirebaseCheck(out)
        q1 == [Observe(q, "project", out) EXCEPT
                   !.firebaseCheck = firebaseCheck,
                   !.validationResult.checks.firebase = firebaseCheck.valid]
        q2 == IF ~firebaseCheck.valid
              THEN [q1 EXCEPT !.validationResult = PushError(@, "firebase")]
              ELSE q1
    IN  Out([Issue(q2, "database") EXCEPT !.pc = "database"], g)

ProbeOutcomes == {"fail", "ok"}

\* Lines 435-454: validateFirestoreAccess is done, validateServiceAccountKey
\* sends its request.
HAfterFirestoreCheck(q, g, firestoreCheck) ==
    LET q1 == [q EXCEPT !.firestoreCheck = firestoreCheck,
                        !.validationResult.checks.firestore = firestoreCheck.valid]
        q2 == IF ~firestoreCheck.valid
              THEN [q1 EXCEPT !.validationResult = PushError(@, "firestore")]
              ELSE q1
    IN  Out([Issue(q2, "keys") EXCEPT !.pc = "keys"], g)

\* validateFirestoreAccess (537-602), the database request is answered.
HValidateDatabase(q, g, out) ==
    IF out = "fail"
    THEN HAfterFirestoreCheck(Observe(q, "database", out), g,
                              [valid |-> FALSE, error |-> out])
    ELSE Out([Issue(Observe(q, "database", out), "listCollectionIds")
                  EXCEPT !.pc = "list"], g)

\* validateFirestoreAccess, the listCollectionIds request is answered or
\* fails (563-595): valid either way.
HValidateList(q, g, out) ==
    HAfterFirestoreCheck(Observe(q, "list", out), g,
                         [valid |-> TRUE, canList |-> (out = "ok")])

\* validateServiceAccountKey (604-661)
KeysOutcomes == {"fail", "notfound", "notyet", "expired", "valid"}

KeyCheck(out) ==
    IF out = "valid" THEN [valid |-> TRUE, keyInfo |-> [keyType |-> "USER_MANAGED"]]
    ELSE [valid |-> FALSE, error |-> out, keyInfo |-> NullV]

\* A variant in which the database probe blocks the key.
OverallValidWithFirestore(checks) ==
    checks.authentication /\ checks.iam /\ checks.firebase /\ checks.firestore

OverallValid(checks) == checks.authentication /\ checks.iam /\ checks.firebase

\* Lines 451-475 and 950-975.
HValidateKeys(q, g, out) ==
    LET keyCheck == KeyCheck(out)
        vr1 == [q.validationResult EXCEPT
                   !.accountInfo =
                       [email |-> Get(q.serviceAccount, "client_email"),
                        projectId |-> Get(q.serviceAccount, "project_id"),
                        keyInfo |-> keyCheck.keyInfo,
                        projectInfo |-> IF "projectInfo" \in DOMAIN q.firebaseCheck
                                        THEN q.firebaseCheck.projectInfo
                                        ELSE UndefinedV]]
        vr2 == [vr1 EXCEPT !.valid = OverallValid(vr1.checks)]
    IN  HValidateReturn(Observe(q, "keys", out), g, vr2)

\* The forms sent to /validate-service-account.
KeyWithout(f) ==
    ObjV([g \in RequiredFieldSet \ {f} |-> WellFormedKey.fields[g]])

KeyWith(f, v) == ObjV([WellFormedKey.fields EXCEPT ![f] = v])

CandidateKeys ==
    {WellFormedKey, KeyWithout("private_key_id"),
     KeyWith("client_email", NumV(FALSE, <<5>>, 0))}

KeyFileName == <<"key", ".json">>

ValidationForms ==
    {<<>>, <<FormFile("serviceAccount", KeyFileName, BadText)>>,
     <<FormFile("file", KeyFileName, JsonText(WellFormedKey))>>}
        \cup {<<FormFile("serviceAccount", KeyFileName, JsonText(c))>> : c \in CandidateKeys}

HonoValidate_Receive(r) ==
    /\ server = "hono"
    /\ \E form \in ValidationForms :
          Receive(r, [IdleReq EXCEPT !.kind = "validate", !.pc = "form", !.input = form])

HonoValidate_Form(r) ==
    /\ server = "hono" /\ reqs[r].kind = "validate" /\ reqs[r].pc = "form"
    /\ Step(r, HValidateForm(reqs[r], Globals))

HonoValidate_Jwt(r) ==
    /\ server = "hono" /\ reqs[r].kind = "validate" /\ reqs[r].pc = "jwt"
    /\ \E out \in JwtOutcomes : Step(r, HValidateJwt(reqs[r], Globals, out))

\* The answers of the token endpoint to the assertion of a key.
Refused(data) == [network |-> FALSE, json |-> TRUE, ok |-> FALSE, data |-> data]
Granted(data) == [network |-> FALSE, json |-> TRUE, ok |-> TRUE, data |-> data]
NoAnswer == [network |-> TRUE, json |-> FALSE, ok |-> FALSE, data |-> <<>>]
NotJson(ok) == [network |-> FALSE, json |-> FALSE, ok |-> ok, data |-> <<>>]
Description == StrV(<<"Invalid JWT Signature.">>)
Code == StrV(<<"invalid_grant">>)

TokenAnswers(serviceAccount) ==
    {Refused([error |-> Code, error_description |-> Description]),
     Granted([access_token |-> Token(serviceAccount)]),
     Granted(<<>>)}

TokenResponses(serviceAccount) ==
    TokenAnswers(serviceAccount) \cup
    {Refused([error |-> Code]), Refused([error_description |-> Description]),
     Refused(<<>>), NotJson(FALSE), NotJson(TRUE), NoAnswer}

HonoValidate_Token(r) ==
    /\ server = "hono" /\ reqs[r].kind = "validate" /\ reqs[r].pc = "token"
    /\ \E response \in TokenAnswers(reqs[r].serviceAccount) :
          Step(r, HValidateToken(reqs[r], Globals, response))

HonoValidate_Project(r) ==
    /\ server = "hono" /\ reqs[r].kind = "validate" /\ reqs[r].pc = "project"
    /\ \E out \in ProjectOutcomes : Step(r, HValidateProject(reqs[r], Globals, out))

HonoValidate_Database(r) ==
    /\ server = "hono" /\ reqs[r].kind = "validate" /\ reqs[r].pc = "database"
    /\ \E out \in ProbeOutcomes : Step(r, HValidateDatabase(reqs[r], Globals, out))

HonoValidate_List(r) ==
    /\ server = "hono" /\ reqs[r].kind = "validate" /\ reqs[r].pc = "list"
    /\ \E out \in ProbeOutcomes : Step(r, HValidateList(reqs[r], Globals, out))

HonoValidate_Keys(r) ==
    /\ server = "hono" /\ reqs[r].kind = "validate" /\ reqs[r].pc = "keys"
    /\ \E out \in KeysOutcomes : Step(r, HValidateKeys(reqs[r], Globals, out))

HonoValidate(r) ==
    \/ HonoValidate_Receive(r)
    \/ HonoValidate_Form(r)
    \/ HonoValidate_Jwt(r)
    \/ HonoValidate_Token(r)
    \/ HonoValidate_Project(r)
    \/ HonoValidate_Database(r)
    \/ HonoValidate_List(r)
    \/ HonoValidate_Keys(r)

(***************************************************************************)
(* Top-level shape normalization and the document loop's id handling,      *)
(* the same code in both servers (213-232 and 239-246, 1094-1113 and       *)
(* 1117-1123).                                                             *)
(***************************************************************************)
\* The order in which Object.keys lists the keys of the model's objects.
KeyOrder == <<"", "_id", "a", "b", "c", "x", "y", "0", "1">>

KeyRank(key) == CHOOSE n \in 1..Len(KeyOrder) : KeyOrder[n] = key

RECURSIVE SortKeys(_)
SortKeys(keys) ==
    IF keys = {} THEN <<>>
    ELSE LET first == CHOOSE key \in keys : \A o \in keys : KeyRank(key) <= KeyRank(o)
         IN  <<first>> \o SortKeys(keys \ {first})

\* The own enumerable properties that {...v} and Object.entries(v) see.
Spread(v) ==
    IF v.k = "object" THEN v.fields
    ELSE IF v.k = "array"
         THEN [key \in {ToString(n - 1) : n \in 1..Len(v.items)} |->
                  v.items[CHOOSE n \in 1..Len(v.items) : ToString(n - 1) = key]]
    ELSE <<>>

ObjectKeys(v) == SortKeys(DOMAIN Spread(v))

\* {...data, _id: id}
WithId(data, id) ==
    ObjV([key \in DOMAIN Spread(data) \cup {"_id"} |->
             IF key = "_id" THEN StrV(IF id = "" THEN <<>> ELSE <<id>>)
             ELSE Spread(data)[key]])

\* A variant that takes every object, keyed or not, as one document.
NormalizeSingle(jsonData) ==
    IF IsArray(jsonData) THEN Returned(jsonData.items)
    ELSE IF TypeOf(jsonData) = "object"
    THEN IF ReadRaises(jsonData) THEN Thrown("TypeError")
         ELSE IF Len(ObjectKeys(jsonData)) = 0 THEN Thrown("Empty JSON object")
         ELSE Returned(<<jsonData>>)
    ELSE Thrown("Invalid JSON structure. Must be an object or array")

Normalize(jsonData) ==
    IF IsArray(jsonData) THEN Returned(jsonData.items)
    ELSE IF TypeOf(jsonData) = "object"
    THEN IF ReadRaises(jsonData) THEN Thrown("TypeError")
         ELSE IF Len(ObjectKeys(jsonData)) = 0 THEN Thrown("Empty JSON object")
         ELSE IF \A key \in DOMAIN jsonData.fields :
                    TypeOf(jsonData.fields[key]) = "object"
         THEN Returned([n \in 1..Len(ObjectKeys(jsonData)) |->
                          WithId(jsonData.fields[ObjectKeys(jsonData)[n]],
                                 ObjectKeys(jsonData)[n])])
         ELSE Returned(<<jsonData>>)
    ELSE Thrown("Invalid JSON structure. Must be an object or array")

\* delete doc._id
DeleteId(doc) ==
    IF doc.k = "object"
    THEN ObjV([key \in DOMAIN doc.fields \ {"_id"} |-> doc.fields[key]])
    ELSE doc

\* if (doc._id) { delete doc._id }
StripId(doc) == IF Truthy(Get(doc, "_id")) THEN DeleteId(doc) ELSE doc

\* `doc_${Date.now()}_${i}` (Hono) and the SDK's auto id (Express).
SynthId(i) == [k |-> "synth", i |-> i]

\* A variant of the SDK's auto id that tells documents apart by their index
\* in the file only.
AutoIdByIndex(f, i) == SynthId(i)

\* db.collection(collectionName).doc().id: every call of doc() draws a new
\* id, here named by the file and the index it is drawn for.
AutoId(f, i) == [k |-> "synth", f |-> f, i |-> i]

\* doc._id || db.collection(collectionName).doc().id
XDocId(doc, f, i) == IF Truthy(Get(doc, "_id")) THEN Get(doc, "_id") ELSE AutoId(f, i)

\* doc._id || <synthesized id>
DocId(doc, i) == IF Truthy(Get(doc, "_id")) THEN Get(doc, "_id") ELSE SynthId(i)

\* File names are token sequences whose last token may be an extension.
IsExtension(token) == token \in {".json", ".txt"}

\* originalFilename.replace(/\.[^/.]+$/, "")
HCollectionName(name) ==
    IF Len(name) >= 1 /\ IsExtension(name[Len(name)])
    THEN SubSeq(name, 1, Len(name) - 1) ELSE name

\* path.parse(originalname).name: a name that is only ".json" has no
\* extension.
XCollectionName(name) ==
    IF Len(name) >= 2 /\ IsExtension(name[Len(name)])
    THEN SubSeq(name, 1, Len(name) - 1) ELSE name

(***************************************************************************)
(* Hono: POST /upload-collection (1057-1196)                               *)
(***************************************************************************)
\* A gate that lets every request through.
HUploadGateOpen(q, g) == Out([q EXCEPT !.pc = "form"], g)

\* Lines 1058-1067.
HUploadGate(q, g) ==
    IF ~g.isValidServiceAccount
    THEN Out(Respond(q, 401, [success |-> FALSE,
                              error |-> "Valid service account required"]), g)
    ELSE Out([q EXCEPT !.pc = "form"], g)

\* Lines 1185-1195: the outer catch.
HUploadError(q, g) ==
    Out(Respond(q, 500, [success |-> FALSE, error |-> "Error uploading collections"]), g)

\* Lines 1070-1084, up to createJWT inside getAccessToken.
HUploadForm(q, g) ==
    LET files == ParseMultipartForm(q.input)
        collectionFiles == IF "collections" \in DOMAIN files
                           THEN files.collections ELSE <<>>
        text == IF g.SERVICE_ACCOUNT = UndefinedV THEN JsonText(ObjV(<<>>))
                ELSE g.SERVICE_ACCOUNT
    IN  IF Len(collectionFiles) = 0
        THEN Out(Respond(q, 400, [success |-> FALSE,
                                  error |-> "No collection files uploaded"]), g)
        ELSE IF JsonParse(text).raised THEN HUploadError(q, g)
        ELSE Out([q EXCEPT !.files = collectionFiles,
                           !.serviceAccount = JsonParse(text).value,
                           !.handle = JsonParse(text).value,
                           !.pc = "jwt"], g)

Write(collectionName, docId, fields, token) ==
    [e |-> "write", collection |-> collectionName, docId |-> docId,
     fields |-> fields, token |-> token]

\* Every logged event carries the index of the file being processed.
LogEvent(q, event) ==
    [q EXCEPT !.log = Append(@, event @@ [f |-> q.f, at |-> q.elapsed,
                                          via |-> q.handle])]

\* Lines 1168-1184.
HUploadSummary(q) ==
    LET results == q.results
        Count(P(_)) == Cardinality({n \in 1..Len(results) : P(results[n])})
        HasError(res) == "error" \in DOMAIN res
        IsSuccess(res) == res.success
        RECURSIVE Sum(_)
        Sum(n) == IF n = 0 THEN 0
                  ELSE Sum(n - 1) + (IF "documentsUploaded" \in DOMAIN results[n]
                                     THEN results[n].documentsUploaded ELSE 0)
    IN  [success |-> \E n \in 1..Len(results) : results[n].success,
         results |-> results,
         summary |-> [totalFiles |-> Len(q.files),
                      successfulFiles |-> Count(IsSuccess),
                      failedFiles |-> Count(HasError),
                      totalDocumentsUploaded |-> Sum(Len(results))],
         errors |-> SelectSeq(results, HasError)]

RECURSIVE HRunFiles(_)
RECURSIVE HRunDocs(_)

\* Lines 1154-1165: the file's catch.
HFileError(q, message) ==
    [q EXCEPT !.results = Append(@, [collection |-> HCollectionName(q.files[q.f].originalFilename),
                                     error |-> message, success |-> FALSE]),
              !.f = q.f + 1]

\* Lines 1087-1115 and 1168-1184: the next file is parsed and normalized, or
\* the response is sent after the last one.
HRunFiles(q) ==
    IF q.f > Len(q.files) THEN Respond(q, 200, HUploadSummary(q))
    ELSE LET file == q.files[q.f]
             jsonData == JsonParse(file.buffer)
         IN  IF jsonData.raised THEN HRunFiles(HFileError(q, "SyntaxError"))
             ELSE LET documents == Normalize(jsonData.value)
                  IN  IF documents.raised
                      THEN HRunFiles(HFileError(q, documents.message))
                      ELSE HRunDocs([q EXCEPT
                               !.collectionName = HCollectionName(file.originalFilename),
                               !.documents = documents.value,
                               !.normalized = documents.value,
                               !.i = 0,
                               !.successCount = 0])

\* Lines 1117-1132 and 1146-1151: the next document's PATCH is sent, or the
\* file's result is recorded after the last one.
HRunDocs(q) ==
    IF q.i >= Len(q.documents)
    THEN HRunFiles([q EXCEPT
             !.results = Append(@, [collection |-> q.collectionName,
                                    documentsUploaded |-> q.successCount,
                                    totalDocuments |-> Len(q.documents),
                                    success |-> q.successCount > 0]),
             !.f = q.f + 1])
    ELSE LET doc == q.documents[q.i + 1]
         IN  IF ReadRaises(doc) THEN HRunFiles(HFileError(q, "TypeError"))
             ELSE [LogEvent(q, Write(q.collectionName, DocId(doc, q.i),
                                     ConvertToFirestoreFields(Spread(StripId(doc))),
                                     q.accessToken))
                      EXCEPT !.documents[q.i + 1] = StripId(doc), !.pc = "write"]

\* Lines 1084-1085: getAccessToken is answered.
HUploadJwt(q, g, out) ==
    IF out = "throw" THEN HUploadError(Observe(q, "jwt", out), g)
    ELSE Out([Issue(Observe(q, "jwt", out), "token") EXCEPT !.pc = "token"], g)

HUploadToken(q, g, response) ==
    IF GetAccessToken(response).raised THEN HUploadError(Exchange(q, response), g)
    ELSE Out(HRunFiles([Exchange(q, response) EXCEPT
                 !.accessToken = GetAccessToken(response).value,
                 !.results = <<>>,
                 !.f = 1]), g)

\* uploadDocument (838-859) is answered: response.ok, not ok, or fetch
\* raises.
WriteOutcomes == {"ok", "rejected", "throw"}

\* Every PacingPeriod-th document is followed by a pause (1138-1140).
PacingPeriod == 10

\* Lines 1134-1143.
HUploadWrite(q, g, out) ==
    LET q1 == [LogEvent(q, [e |-> "answer", out |-> out]) EXCEPT
                  !.successCount = IF out = "ok" THEN @ + 1 ELSE @]
    IN  IF out # "throw" /\ q.i % PacingPeriod = 0
        THEN Out([LogEvent(q1, [e |-> "sleep", ms |-> 1000]) EXCEPT !.pc = "sleep"], g)
        ELSE Out(HRunDocs([q1 EXCEPT !.i = q.i + 1]), g)

\* A variant whose pause never elapses: the handler stays where it is.
HUploadSleepNeverElapsing(q, g) == Out(q, g)

HUploadSleep(q, g) == Out(HRunDocs([q EXCEPT !.i = q.i + 1]), g)

\* The files sent to /upload-collection.
One == NumV(FALSE, <<1>>, 0)
Two == NumV(FALSE, <<2>>, 0)
DocA == ObjV([a |-> One])
DocB == ObjV([b |-> Two])

CollectionFile(name, value) ==
    FormFile("collections", <<name, ".json">>, JsonText(value))

TestFiles ==
    {FormFile("collections", <<"broken", ".json">>, BadText),
     CollectionFile("empty", ObjV(<<>>)),
     CollectionFile("scalar", One),
     CollectionFile("list", ArrV(<<DocA, DocB>>)),
     CollectionFile("keyed", ObjV([x |-> DocA, y |-> DocB])),
     CollectionFile("blank", ObjV([key \in {""} |-> DocA])),
     CollectionFile("single", ObjV([a |-> One, b |-> DocB])),
     CollectionFile("ids", ArrV(<<ObjV([_id |-> StrV(<<"u1">>), a |-> One]),
                                 ObjV([_id |-> NumV(FALSE, <<0>>, 0), a |-> One])>>))}

RECURSIVE FormsOf(_)
FormsOf(n) ==
    IF n = 0 THEN {<<>>}
    ELSE FormsOf(n - 1) \cup
         {Append(form, file) : form \in {g \in FormsOf(n - 1) : Len(g) = n - 1},
                               file \in TestFiles}

UploadForms == FormsOf(MaxFiles)

HonoUpload_Receive(r) ==
    /\ server = "hono"
    /\ \E form \in UploadForms :
          Receive(r, HUploadGate([IdleReq EXCEPT !.kind = "upload", !.input = form],
                                 Globals).q)

HonoUpload_Form(r) ==
    /\ server = "hono" /\ reqs[r].kind = "upload" /\ reqs[r].pc = "form"
    /\ Step(r, HUploadForm(reqs[r], Globals))

HonoUpload_Jwt(r) ==
    /\ server = "hono" /\ reqs[r].kind = "upload" /\ reqs[r].pc = "jwt"
    /\ \E out \in JwtOutcomes : Step(r, HUploadJwt(reqs[r], Globals, out))

HonoUpload_Token(r) ==
    /\ server = "hono" /\ reqs[r].kind = "upload" /\ reqs[r].pc = "token"
    /\ \E response \in TokenAnswers(reqs[r].serviceAccount) :
          Step(r, HUploadToken(reqs[r], Globals, response))

HonoUpload_Write(r) ==
    /\ server = "hono" /\ reqs[r].kind = "upload" /\ reqs[r].pc = "write"
    /\ \E out \in WriteOutcomes : Step(r, HUploadWrite(reqs[r], Globals, out))

HonoUpload_Sleep(r) ==
    /\ server = "hono" /\ reqs[r].kind = "upload" /\ reqs[r].pc = "sleep"
    /\ Step(r, HUploadSleep(reqs[r], Globals))

HonoUpload(r) ==
    \/ HonoUpload_Receive(r)
    \/ HonoUpload_Form(r)
    \/ HonoUpload_Jwt(r)
    \/ HonoUpload_Token(r)
    \/ HonoUpload_Write(r)
    \/ HonoUpload_Sleep(r)

(***************************************************************************)
(* Express: POST /validate-service-account (77-132)                        *)
(***************************************************************************)
\* multer: the files of the form under one field name, in the form's order.
MulterFiles(form, key) ==
    LET IsKey(entry) == entry.key = key
        entries == SelectSeq(form, IsKey)
    IN  [n \in 1..Len(entries) |->
            [originalname |-> entries[n].name, buffer |-> entries[n].buffer]]

\* admin.firestore() of the app initialized with a key.
Firestore(serviceAccount) == [k |-> "firestore", key |-> serviceAccount]

XValidateFail(q, g, error) ==
    Out(Respond(q, 400, [success |-> FALSE, error |-> error]),
        [g EXCEPT !.isValidServiceAccount = FALSE])

\* admin.initializeApp(...) returns or raises.
InitOutcomes == {"ok", "throw"}

\* Lines 103-108 and 115-122.
XValidateInit(q, g, init) ==
    IF init = "throw" THEN XValidateFail(q, g, "Invalid service account credentials")
    ELSE Out([Issue(q, "listCollections") EXCEPT !.pc = "list"],
             [g EXCEPT !.adminApp = q.serviceAccount,
                       !.db = Firestore(q.serviceAccount)])

\* upload.single(field) accepts one file, under that field; for any other
\* file multer raises LIMIT_UNEXPECTED_FILE and the route handler is not run.
MulterSingle(form, field) ==
    IF \/ \E n \in 1..Len(form) : form[n].key # field
       \/ Len(MulterFiles(form, field)) > 1
    THEN Thrown("LIMIT_UNEXPECTED_FILE")
    ELSE Returned(MulterFiles(form, field))

\* Lines 77-101 and 123-131.  A request multer rejects goes to the error
\* middleware (299-306), which answers 500 and touches no global.
XValidateForm(q, g, init) ==
    LET files == MulterFiles(q.input, "serviceAccount")
    IN  IF MulterSingle(q.input, "serviceAccount").raised
        THEN Out(Respond(q, 500, [error |-> "Internal server error"]), g)
        ELSE IF Len(files) = 0 THEN XValidateFail(q, g, "No file uploaded")
        ELSE LET parsed == JsonParse(files[1].buffer)
             IN  IF parsed.raised THEN XValidateFail(q, g, "Invalid JSON format")
                 ELSE LET structure == XValidateServiceAccountStructure(parsed.value)
                          q1 == [q EXCEPT !.serviceAccount = parsed.value]
                      IN  IF structure.raised
                          THEN XValidateFail(q1, g, "Invalid JSON format")
                          ELSE IF ~structure.value
                          THEN XValidateFail(q1, g, "Invalid service account structure")
                          ELSE IF g.adminApp # NullV
                          THEN Out([q1 EXCEPT !.pc = "delete"], g)
                          ELSE XValidateInit(q1, g, init)

\* admin.app().delete() resolves or rejects.
DeleteOutcomes == {"ok", "throw"}

\* Lines 99-101.
XValidateDelete(q, g, out, init) ==
    IF out = "throw" THEN XValidateFail(q, g, "Invalid service account credentials")
    ELSE XValidateInit(q, [g EXCEPT !.adminApp = NullV], init)

\* db.listCollections() resolves or rejects.
ListOutcomes == {"ok", "fail"}

\* Lines 108-122.
XValidateList(q, g, out) ==
    IF out = "fail" THEN XValidateFail(q, g, "Invalid service account credentials")
    ELSE Out(Respond(q, 200, [success |-> TRUE]),
             [g EXCEPT !.isValidServiceAccount = TRUE])

ExpressValidate_Receive(r) ==
    /\ server = "express"
    /\ \E form \in ValidationForms :
          Receive(r, [IdleReq EXCEPT !.kind = "validate", !.pc = "form", !.input = form])

ExpressValidate_Form(r) ==
    /\ server = "express" /\ reqs[r].kind = "validate" /\ reqs[r].pc = "form"
    /\ \E init \in InitOutcomes : Step(r, XValidateForm(reqs[r], Globals, init))

ExpressValidate_Delete(r) ==
    /\ server = "express" /\ reqs[r].kind = "validate" /\ reqs[r].pc = "delete"
    /\ \E out \in DeleteOutcomes, init \in InitOutcomes :
          Step(r, XValidateDelete(reqs[r], Globals, out, init))

ExpressValidate_List(r) ==
    /\ server = "express" /\ reqs[r].kind = "validate" /\ reqs[r].pc = "list"
    /\ \E out \in ListOutcomes : Step(r, XValidateList(reqs[r], Globals, out))

ExpressValidate(r) ==
    \/ ExpressValidate_Receive(r)
    \/ ExpressValidate_Form(r)
    \/ ExpressValidate_Delete(r)
    \/ ExpressValidate_List(r)

(***************************************************************************)
(* Express: POST /upload-collection (191-297) and commitBatchWithRetry     *)
(* (45-59)                                                                 *)
(***************************************************************************)
\* const batchSize = 15
batchSize == 15
\* retries = 3
retries == 3

RECURSIVE Pow2(_)
Pow2(n) == IF n = 0 THEN 1 ELSE 2 * Pow2(n - 1)

\* A variant that waits the same time before every retry.
BackoffMsFixed(attempt) == 2000

\* Math.pow(2, attempt) * 1000
BackoffMs(attempt) == Pow2(attempt) * 1000

Commit(collectionName, batch, attempt) ==
    [e |-> "commit", collection |-> collectionName, batch |-> batch,
     attempt |-> attempt]

\* The error a rejected commit of the given attempt carries.
CommitError(attempt) == <<"commit rejected", attempt>>

\* Lines 283-287.
XUploadBody(q) ==
    LET HasError(res) == "error" \in DOMAIN res
    IN  [success |-> TRUE, results |-> q.results,
         errors |-> SelectSeq(q.results, HasError)]

RECURSIVE XRunFiles(_)
RECURSIVE XRunDocs(_)

\* Lines 275-281: the file's catch.
XFileError(q, message) ==
    [q EXCEPT !.results = Append(@, [collection |-> XCollectionName(q.files[q.f].originalname),
                                     error |-> message]),
              !.f = q.f + 1]

\* Lines 206-237 and 283-287.
XRunFiles(q) ==
    IF q.f > Len(q.files) THEN Respond(q, 200, XUploadBody(q))
    ELSE LET file == q.files[q.f]
             jsonData == JsonParse(file.buffer)
         IN  IF jsonData.raised THEN XRunFiles(XFileError(q, "SyntaxError"))
             ELSE LET documents == Normalize(jsonData.value)
                  IN  IF documents.raised
                      THEN XRunFiles(XFileError(q, documents.message))
                      ELSE XRunDocs([q EXCEPT
                               !.collectionName = XCollectionName(file.originalname),
                               !.documents = documents.value,
                               !.normalized = documents.value,
                               !.i = 0,
                               !.batch = <<>>,
                               !.batchCount = 0,
                               !.successCount = 0])

\* Lines 239-253 and 268-274: documents are added to the batch until it is
\* full or the list ends; then commitBatchWithRetry makes its first attempt.
XRunDocs(q) ==
    IF q.i >= Len(q.documents)
    THEN XRunFiles([q EXCEPT
             !.results = Append(@, [collection |-> q.collectionName,
                                    documentsUploaded |-> q.successCount,
                                    totalDocuments |-> Len(q.documents)]),
             !.f = q.f + 1])
    ELSE LET doc == q.documents[q.i + 1]
         IN  IF ReadRaises(doc) THEN XRunFiles(XFileError(q, "TypeError"))
             ELSE LET q1 == [q EXCEPT
                                !.documents[q.i + 1] = StripId(doc),
                                !.batch = Append(@, [docId |-> XDocId(doc, q.f, q.i),
                                                     data |-> StripId(doc)]),
                                !.batchCount = @ + 1]
                  IN  IF q1.batchCount = batchSize \/ q.i = Len(q.documents) - 1
                      THEN [LogEvent(q1, Commit(q1.collectionName, q1.batch, 1))
                               EXCEPT !.attempt = 1, !.pc = "commit"]
                      ELSE XRunDocs([q1 EXCEPT !.i = q.i + 1])

\* Lines 192-204.
XUploadForm(q, g) ==
    IF ~g.isValidServiceAccount \/ ~Truthy(g.db)
    THEN Out(Respond(q, 401, [success |-> FALSE,
                              error |-> "Valid service account required"]), g)
    ELSE IF Len(MulterFiles(q.input, "collections")) = 0
    THEN Out(Respond(q, 400, [error |-> "No files uploaded"]), g)
    ELSE Out(XRunFiles([q EXCEPT !.files = MulterFiles(q.input, "collections"),
                                 !.results = <<>>,
                                 !.handle = g.db,
                                 !.f = 1]), g)

\* batch.commit() resolves or rejects.
CommitOutcomes == {"ok", "fail"}

\* An attempt count that is one too many.
XUploadCommitOneMore(q, g, out) ==
    LET q1 == LogEvent(q, [e |-> "answer", out |-> out, attempt |-> q.attempt])
    IN  IF out = "ok"
        THEN Out([LogEvent(q1, [e |-> "sleep", ms |-> 1000]) EXCEPT
                     !.successCount = @ + q.batchCount, !.pc = "pace"], g)
        ELSE IF q.attempt = retries + 1
        THEN Out(XRunFiles(XFileError(q1, CommitError(q.attempt))), g)
        ELSE Out([LogEvent(q1, [e |-> "backoff", ms |-> BackoffMs(q.attempt)])
                     EXCEPT !.pc = "backoff"], g)

\* A variant that, once the attempts are exhausted, drops the batch and goes
\* on with the rest of the file.
XUploadCommitSkipping(q, g, out) ==
    LET q1 == LogEvent(q, [e |-> "answer", out |-> out, attempt |-> q.attempt])
    IN  IF out = "ok"
        THEN Out([LogEvent(q1, [e |-> "sleep", ms |-> 1000]) EXCEPT
                     !.successCount = @ + q.batchCount, !.pc = "pace"], g)
        ELSE IF q.attempt = retries
        THEN Out(XRunDocs([q1 EXCEPT !.batch = <<>>, !.batchCount = 0,
                                     !.i = q.i + 1]), g)
        ELSE Out([LogEvent(q1, [e |-> "backoff", ms |-> BackoffMs(q.attempt)])
                     EXCEPT !.pc = "backoff"], g)

\* A variant that does not await the pause after a committed batch: the loop
\* goes on to the next batch, or the next file, at once.
XUploadCommitUnawaited(q, g, out) ==
    LET q1 == LogEvent(q, [e |-> "answer", out |-> out, attempt |-> q.attempt])
    IN  IF out = "ok"
        THEN Out(XRunDocs([LogEvent(q1, [e |-> "sleep", ms |-> 1000]) EXCEPT
                              !.successCount = @ + q.batchCount,
                              !.batch = <<>>, !.batchCount = 0, !.i = q.i + 1]), g)
        ELSE IF q.attempt = retries
        THEN Out(XRunFiles(XFileError(q1, CommitError(q.attempt))), g)
        ELSE Out([LogEvent(q1, [e |-> "backoff", ms |-> BackoffMs(q.attempt)])
                     EXCEPT !.pc = "backoff"], g)

\* Lines 46-57 and 254-262: the attempt is answered.  The batch of a next
\* file is made by the handle db holds then.
XUploadCommit(q, g, out) ==
    LET q1 == LogEvent(q, [e |-> "answer", out |-> out, attempt |-> q.attempt])
    IN  IF out = "ok"
        THEN Out([LogEvent(q1, [e |-> "sleep", ms |-> 1000]) EXCEPT
                     !.successCount = @ + q.batchCount, !.pc = "pace"], g)
        ELSE IF q.attempt = retries
        THEN Out(XRunFiles([XFileError(q1, CommitError(q.attempt)) EXCEPT
                               !.handle = g.db]), g)
        ELSE Out([LogEvent(q1, [e |-> "backoff", ms |-> BackoffMs(q.attempt)])
                     EXCEPT !.pc = "backoff"], g)

\* Line 56 has elapsed: the next attempt.
XUploadBackoff(q, g) ==
    Out([LogEvent(q, Commit(q.collectionName, q.batch, q.attempt + 1))
            EXCEPT !.attempt = q.attempt + 1, !.pc = "commit"], g)

\* Lines 257 and 264-266: the pause has elapsed; a fresh batch.
XUploadPace(q, g) ==
    Out(XRunDocs([q EXCEPT !.batch = <<>>, !.batchCount = 0, !.i = q.i + 1,
                           !.handle = g.db]), g)

ExpressUpload_Receive(r) ==
    /\ server = "express"
    /\ \E form \in UploadForms :
          Receive(r, [IdleReq EXCEPT !.kind = "upload", !.pc = "form", !.input = form])

ExpressUpload_Form(r) ==
    /\ server = "express" /\ reqs[r].kind = "upload" /\ reqs[r].pc = "form"
    /\ Step(r, XUploadForm(reqs[r], Globals))

ExpressUpload_Commit(r) ==
    /\ server = "express" /\ reqs[r].kind = "upload" /\ reqs[r].pc = "commit"
    /\ \E out \in CommitOutcomes : Step(r, XUploadCommit(reqs[r], Globals, out))

ExpressUpload_Backoff(r) ==
    /\ server = "express" /\ reqs[r].kind = "upload" /\ reqs[r].pc = "backoff"
    /\ Step(r, XUploadBackoff(reqs[r], Globals))

ExpressUpload_Pace(r) ==
    /\ server = "express" /\ reqs[r].kind = "upload" /\ reqs[r].pc = "pace"
    /\ Step(r, XUploadPace(reqs[r], Globals))

ExpressUpload(r) ==
    \/ ExpressUpload_Form(r)
    \/ ExpressUpload_Commit(r)
    \/ ExpressUpload_Backoff(r)
    \/ ExpressUpload_Pace(r)

(***************************************************************************)
(* uploadJsonToFirestore (src/unnamed/part_001 20-51), the script's batch  *)
(* writer.                                                                 *)
(***************************************************************************)
\* `doc_${i + index + 1}`
ScriptDocId(n) == StrV(<<"doc_">> \o Decimal(n))

\* A slice that starts one document too late.
SRunBatchesSkipping(q) ==
    IF q.i >= Len(q.documents) THEN [q EXCEPT !.pc = "done"]
    ELSE LET last == IF q.i + q.batchSize < Len(q.documents)
                     THEN q.i + q.batchSize ELSE Len(q.documents)
             batchData == SubSeq(q.documents, q.i + 2, last)
             batch == [index \in 1..Len(batchData) |->
                          [docId |-> ScriptDocId(q.i + (index - 1) + 1),
                           data |-> batchData[index]]]
         IN  [LogEvent(q, Commit(q.collectionName, batch, 1))
                 EXCEPT !.batch = batch, !.pc = "commit"]

\* Lines 26-35: the next slice is put in a batch and committed, or the loop
\* ends.
SRunBatches(q) ==
    IF q.i >= Len(q.documents) THEN [q EXCEPT !.pc = "done"]
    ELSE LET last == IF q.i + q.batchSize < Len(q.documents)
                     THEN q.i + q.batchSize ELSE Len(q.documents)
             batchData == SubSeq(q.documents, q.i + 1, last)
             batch == [index \in 1..Len(batchData) |->
                          [docId |-> ScriptDocId(q.i + (index - 1) + 1),
                           data |-> batchData[index]]]
         IN  [LogEvent(q, Commit(q.collectionName, batch, 1))
                 EXCEPT !.batch = batch, !.pc = "commit"]

\* Lines 35-44 and 48-50: the commit is answered.
SCommit(q, g, out) ==
    LET q1 == LogEvent(q, [e |-> "answer", out |-> out, attempt |-> 1])
    IN  IF out = "fail" THEN Out([q1 EXCEPT !.pc = "done"], g)
        ELSE Out([LogEvent(q1, [e |-> "sleep", ms |-> 1000]) EXCEPT
                     !.uploadedCount = @ + Len(q.batch), !.pc = "sleep"], g)

\* Lines 44 and 26: the pause has elapsed; i += batchSize.
SSleep(q, g) == Out(SRunBatches([q EXCEPT !.i = q.i + q.batchSize]), g)

\* The lists of documents given to the batch writers: n distinct documents.
RECURSIVE NatDigits(_)
NatDigits(n) == IF n < 10 THEN <<n>> ELSE NatDigits(n \div 10) \o <<n % 10>>

RECURSIVE NatNum(_, _)
NatNum(n, exp) ==
    IF n # 0 /\ n % 10 = 0 THEN NatNum(n \div 10, exp + 1)
    ELSE NumV(FALSE, NatDigits(n), exp)

Document(n) == ObjV([a |-> NatNum(n, 0)])
DocumentList(n) == [k \in 1..n |-> Document(k)]

Script_Start(r) ==
    /\ server = "script"
    /\ \E n \in 0..MaxDocs, size \in 1..MaxBatchSize :
          Receive(r, SRunBatches([IdleReq EXCEPT !.kind = "script",
                                                 !.collectionName = <<"manhwa">>,
                                                 !.documents = DocumentList(n),
                                                 !.batchSize = size]))

Script_Commit(r) ==
    /\ server = "script" /\ reqs[r].kind = "script" /\ reqs[r].pc = "commit"
    /\ \E out \in CommitOutcomes : Step(r, SCommit(reqs[r], Globals, out))

Script_Sleep(r) ==
    /\ server = "script" /\ reqs[r].kind = "script" /\ reqs[r].pc = "sleep"
    /\ Step(r, SSleep(reqs[r], Globals))

Script(r) ==
    \/ Script_Start(r)
    \/ Script_Commit(r)
    \/ Script_Sleep(r)

ExpressUpload_ReceiveList(r) ==
    /\ server = "express"
    /\ \E n \in 0..MaxDocs :
          Receive(r, [IdleReq EXCEPT
                         !.kind = "upload", !.pc = "form",
                         !.input = <<CollectionFile("list", ArrV(DocumentList(n)))>>])

(***************************************************************************)
(* Hono: getRootCollectionIds (763-782), getDocumentsInCollection          *)
(* (784-815) and POST /backup (990-1055)                                   *)
(***************************************************************************)
\* doc.name.split("/").pop(): a resource name is a sequence of tokens, the
\* token "/" being the separator.
LastSlash(name) ==
    IF \E n \in 1..Len(name) : name[n] = "/"
    THEN CHOOSE n \in 1..Len(name) :
            name[n] = "/" /\ \A m \in (n + 1)..Len(name) : name[m] # "/"
    ELSE 0

SplitPop(name) == StrV(SubSeq(name, LastSlash(name) + 1, Len(name)))

\* Lines 805-814: { id: doc.name.split("/").pop(), ...fields }; the entries
\* of a missing fields object cannot be read.
DocumentOf(doc) ==
    IF "fields" \notin DOMAIN doc THEN Thrown("TypeError")
    ELSE Returned(ObjV([key \in {"id"} \cup DOMAIN doc.fields |->
                           IF key \in DOMAIN doc.fields
                           THEN ParseFirestoreValue(doc.fields[key])
                           ELSE SplitPop(doc.name)]))

\* Lines 797-814, on the response to the list-documents request.
GetDocumentsInCollection(response) ==
    IF ~response.ok THEN Thrown("Failed to fetch documents")
    ELSE LET docs == IF "documents" \in DOMAIN response.data
                     THEN response.data.documents ELSE <<>>
         IN  IF \E n \in 1..Len(docs) : DocumentOf(docs[n]).raised
             THEN Thrown("TypeError")
             ELSE Returned([n \in 1..Len(docs) |-> DocumentOf(docs[n]).value])

\* Lines 776-781, on the response to the listCollectionIds request.
GetRootCollectionIds(response) ==
    IF ~response.ok THEN Thrown("Failed to fetch collection IDs")
    ELSE Returned(IF "collectionIds" \in DOMAIN response.data
                  THEN response.data.collectionIds ELSE <<>>)

\* Lines 1033-1042: the inner catch.
HBackupError(q, g) ==
    Out(Respond(q, 500, [success |-> FALSE, message |-> "Error processing the backup."]), g)

\* Lines 991-1009, up to createJWT inside getAccessToken.
HBackupForm(q, g) ==
    LET files == ParseMultipartForm(q.input)
    IN  IF "credentialsFile" \notin DOMAIN files
        THEN Out(Respond(q, 400, [success |-> FALSE,
                                  message |-> "Firebase credentials file is required."]), g)
        ELSE LET credentials == JsonParse(files.credentialsFile[1].buffer)
             IN  IF credentials.raised THEN HBackupError(q, g)
                 ELSE Out([q EXCEPT !.serviceAccount = credentials.value,
                                    !.pc = "jwt"], g)

HBackupJwt(q, g, out) ==
    IF out = "throw" THEN HBackupError(Observe(q, "jwt", out), g)
    ELSE Out([Issue(Observe(q, "jwt", out), "token") EXCEPT !.pc = "token"], g)

\* A variant that goes on to list the collections whatever the token
\* exchange gave.
HBackupTokenContinuing(q, g, response) ==
    LET q1 == [Exchange(q, response) EXCEPT
                  !.accessToken = IF GetAccessToken(response).raised THEN UndefinedV
                                  ELSE GetAccessToken(response).value]
    IN  Out([Issue(q1, "listCollectionIds") EXCEPT !.pc = "ids"], g)

\* Lines 1009-1013: the token is kept, getRootCollectionIds sends its
\* request.
HBackupToken(q, g, response) ==
    IF GetAccessToken(response).raised THEN HBackupError(Exchange(q, response), g)
    ELSE LET q1 == [Exchange(q, response) EXCEPT
                       !.accessToken = GetAccessToken(response).value]
         IN  Out([Issue(q1, "listCollectionIds") EXCEPT !.pc = "ids"], g)

\* Lines 1017-1032: the next collection's documents are asked for, or the
\* backup is returned.
HRunCollections(q) ==
    IF q.i >= Len(q.collections)
    THEN Respond(q, 200, [success |-> TRUE, collections |-> q.results])
    ELSE [Issue(q, "listDocuments") EXCEPT
             !.collectionName = q.collections[q.i + 1], !.pc = "docs"]

\* Lines 1010-1017.
HBackupIds(q, g, response) ==
    LET collections == GetRootCollectionIds(response)
        q1 == LogEvent(q, [e |-> "ids", response |-> response])
    IN  IF collections.raised THEN HBackupError(q1, g)
        ELSE Out(HRunCollections([q1 EXCEPT !.collections = collections.value,
                                            !.results = <<>>, !.i = 0]), g)

\* A variant that returns what it has when the documents of a collection
\* cannot be read.
HBackupDocsPartial(q, g, response) ==
    LET documents == GetDocumentsInCollection(response)
        q1 == LogEvent(q, [e |-> "docs", response |-> response])
    IN  IF documents.raised
        THEN Out(Respond(q1, 200, [success |-> TRUE, collections |-> q.results]), g)
        ELSE Out(HRunCollections([q1 EXCEPT
                     !.results = Append(@, [collection |-> q.collectionName,
                                            documents |-> documents.value]),
                     !.i = q.i + 1]), g)

\* Lines 1018-1027.
HBackupDocs(q, g, response) ==
    LET documents == GetDocumentsInCollection(response)
        q1 == LogEvent(q, [e |-> "docs", response |-> response])
    IN  IF documents.raised THEN HBackupError(q1, g)
        ELSE Out(HRunCollections([q1 EXCEPT
                     !.results = Append(@, [collection |-> q.collectionName,
                                            documents |-> documents.value]),
                     !.i = q.i + 1]), g)

\* The answers of the document store to a backup.
NotOk == [ok |-> FALSE]
Ok(data) == [ok |-> TRUE, data |-> data]

IdsResponses ==
    {NotOk, Ok(<<>>), Ok([collectionIds |-> <<"users">>]),
     Ok([collectionIds |-> <<"users", "posts">>])}

DocumentName(id) ==
    <<"projects", "/", "x", "/", "databases", "/", "(default)", "/",
      "documents", "/", "users", "/", id>>

WireDocuments ==
    {[name |-> DocumentName("u1"), fields |-> ConvertToFirestoreFields([a |-> One])],
     [name |-> DocumentName("u2"),
      fields |-> ConvertToFirestoreFields([id |-> StrV(<<"z">>), b |-> DocB])],
     [name |-> DocumentName("u3")]}

RECURSIVE WireLists(_)
WireLists(n) ==
    IF n = 0 THEN {<<>>}
    ELSE WireLists(n - 1) \cup
         {Append(docs, doc) : docs \in {l \in WireLists(n - 1) : Len(l) = n - 1},
                              doc \in WireDocuments}

DocsResponses ==
    {NotOk, Ok(<<>>)} \cup {Ok([documents |-> docs]) : docs \in WireLists(MaxWireDocs)}

BackupForms ==
    {<<>>, <<FormFile("credentialsFile", KeyFileName, BadText)>>,
     <<FormFile("credentialsFile", KeyFileName, JsonText(WellFormedKey))>>}

HonoBackup_Receive(r) ==
    /\ server = "hono"
    /\ \E form \in BackupForms :
          Receive(r, [IdleReq EXCEPT !.kind = "backup", !.pc = "form", !.input = form])

HonoBackup_Form(r) ==
    /\ server = "hono" /\ reqs[r].kind = "backup" /\ reqs[r].pc = "form"
    /\ Step(r, HBackupForm(reqs[r], Globals))

HonoBackup_Jwt(r) ==
    /\ server = "hono" /\ reqs[r].kind = "backup" /\ reqs[r].pc = "jwt"
    /\ \E out \in JwtOutcomes : Step(r, HBackupJwt(reqs[r], Globals, out))

HonoBackup_Token(r) ==
    /\ server = "hono" /\ reqs[r].kind = "backup" /\ reqs[r].pc = "token"
    /\ \E response \in TokenResponses(reqs[r].serviceAccount) :
          Step(r, HBackupToken(reqs[r], Globals, response))

HonoBackup_Ids(r) ==
    /\ server = "hono" /\ reqs[r].kind = "backup" /\ reqs[r].pc = "ids"
    /\ \E response \in IdsResponses : Step(r, HBackupIds(reqs[r], Globals, response))

HonoBackup_Docs(r) ==
    /\ server = "hono" /\ reqs[r].kind = "backup" /\ reqs[r].pc = "docs"
    /\ \E response \in DocsResponses : Step(r, HBackupDocs(reqs[r], Globals, response))

HonoBackup(r) ==
    \/ HonoBackup_Receive(r)
    \/ HonoBackup_Form(r)
    \/ HonoBackup_Jwt(r)
    \/ HonoBackup_Token(r)
    \/ HonoBackup_Ids(r)
    \/ HonoBackup_Docs(r)

(***************************************************************************)
(* Express: POST /upload (134-189), the backup                             *)
(***************************************************************************)
XBackupFail(q, g) ==
    Out(Respond(q, 500, [success |-> FALSE, message |-> "Error processing the file."]), g)

\* Lines 159-164: the app is initialized with the credentials of the backup
\* and db becomes its handle; the trust flag is not touched.
XBackupInit(q, g, init) ==
    IF init = "throw" THEN XBackupFail(q, g)
    ELSE Out([Issue(q, "listCollections") EXCEPT !.pc = "collect"],
             [g EXCEPT !.adminApp = q.serviceAccount,
                       !.db = Firestore(q.serviceAccount)])

\* Lines 137-157 and 176-188; formidable gives the files of a field as a
\* list.
XBackupForm(q, g, init) ==
    LET files == MulterFiles(q.input, "credentialsFile")
    IN  IF Len(files) = 0
        THEN Out(Respond(q, 400, [success |-> FALSE,
                                  message |-> "Firebase credentials file is required."]), g)
        ELSE LET credentials == JsonParse(files[1].buffer)
             IN  IF credentials.raised THEN XBackupFail(q, g)
                 ELSE LET q1 == [q EXCEPT !.serviceAccount = credentials.value]
                      IN  IF g.adminApp # NullV
                          THEN Out([q1 EXCEPT !.pc = "delete"], g)
                          ELSE XBackupInit(q1, g, init)

\* Lines 155-157.
XBackupDelete(q, g, out, init) ==
    IF out = "throw" THEN XBackupFail(q, g)
    ELSE XBackupInit(q, [g EXCEPT !.adminApp = NullV], init)

\* Lines 165-174: getCollectionsData resolves or rejects.
XBackupCollect(q, g, out) ==
    IF out = "fail" THEN XBackupFail(q, g)
    ELSE Out(Respond(q, 200, [success |-> TRUE]), g)

ExpressBackup_Form(r) ==
    /\ server = "express" /\ reqs[r].kind = "backup" /\ reqs[r].pc = "form"
    /\ \E init \in InitOutcomes : Step(r, XBackupForm(reqs[r], Globals, init))

ExpressBackup_Delete(r) ==
    /\ server = "express" /\ reqs[r].kind = "backup" /\ reqs[r].pc = "delete"
    /\ \E out \in DeleteOutcomes, init \in InitOutcomes :
          Step(r, XBackupDelete(reqs[r], Globals, out, init))

ExpressBackup_Collect(r) ==
    /\ server = "express" /\ reqs[r].kind = "backup" /\ reqs[r].pc = "collect"
    /\ \E out \in ListOutcomes : Step(r, XBackupCollect(reqs[r], Globals, out))

ExpressBackup(r) ==
    \/ ExpressBackup_Form(r)
    \/ ExpressBackup_Delete(r)
    \/ ExpressBackup_Collect(r)


(***************************************************************************)
(* SpecServer: one server of src/server.js, started fresh, receives up to  *)
(* MaxRequests requests one after the other.                               *)
(***************************************************************************)
ServerInit ==
    /\ server \in {"express", "hono"}
    /\ isValidServiceAccount = FALSE
    /\ db = NullV
    /\ adminApp = NullV
    /\ SERVICE_ACCOUNT = UndefinedV
    /\ reqs = <<IdleReq>>
    /\ nreq = 0
    /\ lastValidation = "none"
    /\ CodecIdle
    /\ StructIdle

ServerNext ==
    \E r \in DOMAIN reqs :
        \/ HonoValidate(r)
        \/ HonoUpload(r)
        \/ ExpressValidate(r)
        \/ ExpressUpload_Receive(r)
        \/ ExpressUpload(r)
        \/ Close(r)

SpecServer == ServerInit /\ [][ServerNext]_vars

(***************************************************************************)
(* SpecBatch: the two batch writers on lists of 0..MaxDocs documents: the  *)
(* Express server after a successful validation of a well-formed key, and  *)
(* the script.                                                             *)
(***************************************************************************)
BatchInit ==
    /\ server \in {"express", "script"}
    /\ isValidServiceAccount = (server = "express")
    /\ db = IF server = "express" THEN Firestore(WellFormedKey) ELSE NullV
    /\ adminApp = IF server = "express" THEN WellFormedKey ELSE NullV
    /\ SERVICE_ACCOUNT = UndefinedV
    /\ reqs = <<IdleReq>>
    /\ nreq = 0
    /\ lastValidation = IF server = "express" THEN "ok" ELSE "none"
    /\ CodecIdle
    /\ StructIdle

BatchNext ==
    \E r \in DOMAIN reqs :
        \/ ExpressUpload_ReceiveList(r)
        \/ ExpressUpload(r)
        \/ Script(r)
        \/ Close(r)

SpecBatch == BatchInit /\ [][BatchNext]_vars

(***************************************************************************)
(* SpecShape: either server, after a successful validation of a            *)
(* well-formed key, receives uploads of one file each, whose text is the   *)
(* JSON text of one of the top-level shapes.                               *)
(***************************************************************************)
ShapeValues ==
    {NullV, BoolV(TRUE), One, StrV(<<"s">>),
     ArrV(<<>>), ArrV(<<DocA>>), ArrV(<<DocA, DocB>>), ArrV(<<DocB, DocA>>),
     ArrV(<<NullV>>),
     ObjV(<<>>),
     ObjV([x |-> DocA, y |-> DocB]), ObjV([x |-> NullV]), ObjV([x |-> ObjV(<<>>)]),
     ObjV([key \in {""} |-> DocA]),
     ObjV([a |-> One]), ObjV([a |-> One, b |-> DocB]), ObjV([a |-> DocA, b |-> NullV, c |-> Two])}

ShapeForms == {<<CollectionFile("shape", v)>> : v \in ShapeValues}

ValidatedInit ==
    /\ server \in {"express", "hono"}
    /\ isValidServiceAccount = TRUE
    /\ db = IF server = "express" THEN Firestore(WellFormedKey) ELSE NullV
    /\ adminApp = IF server = "express" THEN WellFormedKey ELSE NullV
    /\ SERVICE_ACCOUNT = IF server = "hono" THEN JsonStringify(WellFormedKey)
                         ELSE UndefinedV
    /\ reqs = <<IdleReq>>
    /\ nreq = 0
    /\ lastValidation = "ok"
    /\ CodecIdle
    /\ StructIdle

ExpressUpload_ReceiveShape(r) ==
    /\ server = "express"
    /\ \E form \in ShapeForms :
          Receive(r, [IdleReq EXCEPT !.kind = "upload", !.pc = "form", !.input = form])

HonoUpload_ReceiveShape(r) ==
    /\ server = "hono"
    /\ \E form \in ShapeForms :
          Receive(r, HUploadGate([IdleReq EXCEPT !.kind = "upload", !.input = form],
                                 Globals).q)

HonoUploadSteps(r) ==
    \/ HonoUpload_Form(r)
    \/ HonoUpload_Jwt(r)
    \/ HonoUpload_Token(r)
    \/ HonoUpload_Write(r)
    \/ HonoUpload_Sleep(r)

ShapeNext ==
    \E r \in DOMAIN reqs :
        \/ ExpressUpload_ReceiveShape(r)
        \/ HonoUpload_ReceiveShape(r)
        \/ ExpressUpload(r)
        \/ HonoUploadSteps(r)
        \/ Close(r)

SpecShape == ValidatedInit /\ [][ShapeNext]_vars

(***************************************************************************)
(* SpecBackup: the Hono server, started fresh, receives up to MaxRequests  *)
(* backup requests one after the other.                                    *)
(***************************************************************************)
BackupInit ==
    /\ server = "hono"
    /\ isValidServiceAccount = FALSE
    /\ db = NullV
    /\ adminApp = NullV
    /\ SERVICE_ACCOUNT = UndefinedV
    /\ reqs = <<IdleReq>>
    /\ nreq = 0
    /\ lastValidation = "none"
    /\ CodecIdle
    /\ StructIdle

BackupNext == \E r \in DOMAIN reqs : HonoBackup(r) \/ Close(r)

SpecBackup == BackupInit /\ [][BackupNext]_vars

(***************************************************************************)
(* SpecPace: the three writers on lists of documents: the Express server   *)
(* and the script as in SpecBatch, and the Hono server, holding a          *)
(* validated key, on a list that is longer than its pacing period.         *)
(***************************************************************************)
PacedDocs == PacingPeriod + 3

\* The PATCH of a document is answered 2xx, or fetch raises.
PacedOutcomes == {"ok", "throw"}

HonoUpload_ReceivePaced(r) ==
    /\ server = "hono"
    /\ Receive(r, HUploadGate([IdleReq EXCEPT
                     !.kind = "upload",
                     !.input = <<CollectionFile("list", ArrV(DocumentList(PacedDocs)))>>],
                  Globals).q)

HonoUpload_WritePaced(r) ==
    /\ server = "hono" /\ reqs[r].kind = "upload" /\ reqs[r].pc = "write"
    /\ \E out \in PacedOutcomes : Step(r, HUploadWrite(reqs[r], Globals, out))

PaceInit ==
    /\ server \in {"express", "script", "hono"}
    /\ isValidServiceAccount = (server # "script")
    /\ db = IF server = "express" THEN Firestore(WellFormedKey) ELSE NullV
    /\ adminApp = IF server = "express" THEN WellFormedKey ELSE NullV
    /\ SERVICE_ACCOUNT = IF server = "hono" THEN JsonStringify(WellFormedKey)
                         ELSE UndefinedV
    /\ reqs = <<IdleReq>>
    /\ nreq = 0
    /\ lastValidation = IF server = "script" THEN "none" ELSE "ok"
    /\ CodecIdle
    /\ StructIdle

PaceNext ==
    \E r \in DOMAIN reqs :
        \/ ExpressUpload_ReceiveList(r)
        \/ ExpressUpload(r)
        \/ Script(r)
        \/ HonoUpload_ReceivePaced(r)
        \/ HonoUpload_Form(r)
        \/ HonoUpload_Jwt(r)
        \/ HonoUpload_Token(r)
        \/ HonoUpload_WritePaced(r)
        \/ HonoUpload_Sleep(r)
        \/ Close(r)

SpecPace == PaceInit /\ [][PaceNext]_vars

(***************************************************************************)
(* SpecRace: a server, fresh or holding the validated key WellFormedKey,   *)
(* serves two requests whose handlers interleave at their awaits: each     *)
(* request has a slot of its own and any waiting handler may run next.     *)
(***************************************************************************)
OtherKey == KeyWith("project_id", StrV(<<"y">>))
ThirdKey == KeyWith("project_id", StrV(<<"z">>))

RaceKeys == {OtherKey, ThirdKey}

RaceForms == {<<FormFile("serviceAccount", KeyFileName, JsonText(c))>> : c \in RaceKeys}

Race_ReceiveValidate(r) ==
    \E form \in RaceForms :
        Receive(r, [IdleReq EXCEPT !.kind = "validate", !.pc = "form", !.input = form])

Race_ReceiveUpload(r) ==
    LET q == [IdleReq EXCEPT !.kind = "upload", !.pc = "form",
                             !.input = <<CollectionFile("single", DocA)>>]
    IN  Receive(r, IF server = "hono" THEN HUploadGate(q, Globals).q ELSE q)

HonoValidateSteps(r) ==
    \/ HonoValidate_Form(r)
    \/ HonoValidate_Jwt(r)
    \/ HonoValidate_Token(r)
    \/ HonoValidate_Project(r)
    \/ HonoValidate_Database(r)
    \/ HonoValidate_List(r)
    \/ HonoValidate_Keys(r)

ExpressValidateSteps(r) ==
    \/ ExpressValidate_Form(r)
    \/ ExpressValidate_Delete(r)
    \/ ExpressValidate_List(r)

Fresh ==
    /\ isValidServiceAccount = FALSE
    /\ db = NullV
    /\ adminApp = NullV
    /\ SERVICE_ACCOUNT = UndefinedV
    /\ lastValidation = "none"

Validated ==
    /\ isValidServiceAccount = TRUE
    /\ db = IF server = "express" THEN Firestore(WellFormedKey) ELSE NullV
    /\ adminApp = IF server = "express" THEN WellFormedKey ELSE NullV
    /\ SERVICE_ACCOUNT = IF server = "hono" THEN JsonStringify(WellFormedKey)
                         ELSE UndefinedV
    /\ lastValidation = "ok"

RaceInit ==
    /\ server \in {"express", "hono"}
    /\ Fresh \/ Validated
    /\ reqs = <<IdleReq, IdleReq>>
    /\ nreq = 0
    /\ CodecIdle
    /\ StructIdle

RaceNext ==
    \E r \in DOMAIN reqs :
        \/ Race_ReceiveValidate(r)
        \/ Race_ReceiveUpload(r)
        \/ HonoValidateSteps(r)
        \/ ExpressValidateSteps(r)
        \/ HonoUploadSteps(r)
        \/ ExpressUpload(r)

SpecRace == RaceInit /\ [][RaceNext]_vars

(***************************************************************************)
(* SpecLifetime: the Hono server, holding a validated key, serves          *)
(* validations, uploads and backups one after the other while the clock    *)
(* advances: a reply the handler awaits may take any time, since no fetch  *)
(* of the code has a timeout.                                              *)
(***************************************************************************)
\* exp: now + 3600
TokenLifetime == 3600

HoldsToken(q) ==
    /\ q.pc \notin {"idle", "done"}
    /\ Len(q.exchange) > 0
    /\ ~q.exchange[Len(q.exchange)].result.raised

\* Time passes while the handler of request r waits.
Tick(r) ==
    /\ HoldsToken(reqs[r])
    /\ reqs[r].elapsed < MaxTicks * TickSeconds
    /\ reqs' = [reqs EXCEPT ![r].elapsed = @ + TickSeconds]
    /\ UNCHANGED <<server, globalVars, nreq, lastValidation, codecVars, structVars>>

LifetimeInit ==
    /\ server = "hono"
    /\ isValidServiceAccount = TRUE
    /\ db = NullV
    /\ adminApp = NullV
    /\ SERVICE_ACCOUNT = JsonStringify(WellFormedKey)
    /\ reqs = <<IdleReq>>
    /\ nreq = 0
    /\ lastValidation = "ok"
    /\ CodecIdle
    /\ StructIdle

LifetimeNext ==
    \E r \in DOMAIN reqs :
        \/ HonoValidate(r)
        \/ HonoUpload_ReceiveShape(r)
        \/ HonoUploadSteps(r)
        \/ HonoBackup(r)
        \/ Tick(r)
        \/ Close(r)

SpecLifetime == LifetimeInit /\ [][LifetimeNext]_vars

(***************************************************************************)
(* SpecCred: a server, started fresh, serves MaxRequests requests one      *)
(* after the other, each in a slot of its own; of an answered request the  *)
(* kind, the key and the status stay on record.  The requests are          *)
(* validations of two keys, backups with either key or a broken file, and  *)
(* uploads of one document.                                                *)
(***************************************************************************)
CredForms(field) ==
    {<<FormFile(field, KeyFileName, JsonText(c))>> : c \in {WellFormedKey, OtherKey}}
    \cup {<<FormFile(field, KeyFileName, BadText)>>}

\* The next request arrives when the one before it has been answered.
InTurn(r) == r = nreq + 1 /\ \A s \in 1..(r - 1) : reqs[s].pc = "closed"

\* The connection of an answered request is closed; what it was stays on
\* record.
Archive(r) ==
    /\ reqs[r].pc = "done"
    /\ reqs' = [reqs EXCEPT ![r] = [IdleReq EXCEPT !.kind = reqs[r].kind,
                                                   !.pc = "closed",
                                                   !.status = reqs[r].status,
                                                   !.serviceAccount = reqs[r].serviceAccount]]
    /\ UNCHANGED <<server, globalVars, nreq, lastValidation, codecVars, structVars>>

Cred_ReceiveValidate(r) ==
    /\ InTurn(r)
    /\ \E form \in CredForms("serviceAccount") :
          Receive(r, [IdleReq EXCEPT !.kind = "validate", !.pc = "form", !.input = form])

Cred_ReceiveBackup(r) ==
    /\ InTurn(r)
    /\ \E form \in CredForms("credentialsFile") :
          Receive(r, [IdleReq EXCEPT !.kind = "backup", !.pc = "form", !.input = form])

Cred_ReceiveUpload(r) == InTurn(r) /\ Race_ReceiveUpload(r)

HonoBackupSteps(r) ==
    \/ HonoBackup_Form(r)
    \/ HonoBackup_Jwt(r)
    \/ HonoBackup_Token(r)
    \/ HonoBackup_Ids(r)
    \/ HonoBackup_Docs(r)

CredInit ==
    /\ server \in {"express", "hono"}
    /\ Fresh
    /\ reqs = [r \in 1..MaxRequests |-> IdleReq]
    /\ nreq = 0
    /\ CodecIdle
    /\ StructIdle

CredNext ==
    \E r \in DOMAIN reqs :
        \/ Cred_ReceiveValidate(r)
        \/ Cred_ReceiveBackup(r)
        \/ Cred_ReceiveUpload(r)
        \/ HonoValidateSteps(r)
        \/ ExpressValidateSteps(r)
        \/ HonoBackupSteps(r)
        \/ ExpressBackup(r)
        \/ HonoUploadSteps(r)
        \/ ExpressUpload(r)
        \/ Archive(r)

SpecCred == CredInit /\ [][CredNext]_vars

(***************************************************************************)
(* Claims on the servers (SpecServer)                                      *)
(***************************************************************************)
Slots == DOMAIN reqs

IsHonoValidation(q) == server = "hono" /\ q.kind = "validate"

Apis(q) == [i \in 1..Len(q.calls) |-> q.calls[i].api]

\* The place of each network call in the order of the stages.
StageRank(api) ==
    CASE api = "token" -> 2
      [] api = "project" -> 3
      [] api = "database" -> 4
      [] api = "listCollectionIds" -> 4
      [] api = "keys" -> 5

CallsInStageOrder(q) ==
    \A i, j \in 1..Len(q.calls) :
        i < j => /\ StageRank(q.calls[i].api) <= StageRank(q.calls[j].api)
                 /\ q.calls[i].api # q.calls[j].api

StructureFailed(q) == q.obs.structure \in {"invalid", "raised"}
TokenFailed(q) == q.obs.jwt = "throw" \/ q.obs.token = "fail"
ProjectFailed(q) == q.obs.project \in {"fail", "inactive"}
DatabaseFailed(q) == q.obs.database = "fail"
KeysFailed(q) == q.obs.keys \in {"fail", "notfound", "notyet", "expired"}

ErrorTypes(q) ==
    [i \in 1..Len(q.validationResult.errors) |-> q.validationResult.errors[i].type]

\* C9 (as stated): the stages run in order and the verification stops at
\* the first stage that fails: once a stage has failed no later stage is
\* started, and the error list holds exactly one error, tagged with the
\* failed stage.
C9_StopsAtFirstFailure ==
    \A r \in Slots : IsHonoValidation(reqs[r]) =>
        LET q == reqs[r]
            failed == StructureFailed(q) \/ TokenFailed(q) \/ ProjectFailed(q)
                          \/ DatabaseFailed(q) \/ KeysFailed(q)
        IN  /\ CallsInStageOrder(q)
            /\ failed => /\ q.pc = "done"
                         /\ Len(q.validationResult.errors) = 1
            /\ StructureFailed(q) => ErrorTypes(q) = <<"structure">>
            /\ TokenFailed(q) => ErrorTypes(q) = <<"authentication">>
            /\ (ProjectFailed(q) /\ q.pc = "done") => ErrorTypes(q) = <<"firebase">>

\* C9 (amended): the stages run in the order structure, token, project
\* metadata, database probe, key validity.  Only a failed structural check
\* (one error, tagged structure, or general when the check raises) and a
\* token acquisition that raises (one error, tagged authentication) stop
\* the verification, and then no later call is made.  After a token
\* response all later stages run whatever their results: a failed project
\* check adds one error tagged firebase, a failed database probe one tagged
\* firestore, a failed key validity check none.
C9_StagesAmended ==
    \A r \in Slots : IsHonoValidation(reqs[r]) =>
        LET q == reqs[r]
        IN  /\ CallsInStageOrder(q)
            /\ StructureFailed(q) =>
                  /\ q.pc = "done" /\ q.calls = <<>>
                  /\ ErrorTypes(q) = IF q.obs.structure = "raised"
                                     THEN <<"general">> ELSE <<"structure">>
            /\ TokenFailed(q) =>
                  /\ q.pc = "done"
                  /\ Apis(q) = IF q.obs.jwt = "throw" THEN <<>> ELSE <<"token">>
                  /\ ErrorTypes(q) = <<"authentication">>
            /\ (q.pc = "done" /\ q.obs.token \in {"ok_token", "ok_notoken"}) =>
                  /\ Apis(q) = <<"token", "project", "database">>
                                   \o (IF DatabaseFailed(q) THEN <<>>
                                       ELSE <<"listCollectionIds">>)
                                   \o <<"keys">>
                  /\ ErrorTypes(q) =
                        (IF ProjectFailed(q) THEN <<"firebase">> ELSE <<>>)
                            \o (IF DatabaseFailed(q) THEN <<"firestore">> ELSE <<>>)

\* C9 witness: the project check and the database probe both failed, the
\* key validity check still ran, and the list holds two errors.
C9_Witness ==
    \E r \in Slots :
        /\ IsHonoValidation(reqs[r]) /\ reqs[r].pc = "done"
        /\ ProjectFailed(reqs[r]) /\ DatabaseFailed(reqs[r]) /\ KeysFailed(reqs[r])
        /\ Apis(reqs[r]) = <<"token", "project", "database", "keys">>
        /\ ErrorTypes(reqs[r]) = <<"firebase", "firestore">>

\* A request to upload collections.
IsUpload(q) == q.kind = "upload"

\* C1: credential gating.  An upload-collection request that arrives when
\* no validation has succeeded yet, or when the most recent validation
\* failed, is answered 401 and issues no token request and no write.
C1_CredentialGating ==
    \A r \in Slots : (IsUpload(reqs[r]) /\ reqs[r].after # "ok") =>
        /\ reqs[r].calls = <<>>
        /\ reqs[r].log = <<>>
        /\ reqs[r].pc \in {"form", "done"}
        /\ server = "hono" => reqs[r].pc = "done"
        /\ reqs[r].pc = "done" => reqs[r].status = 401

\* C1 witness: a key was validated and stored, a later validation failed,
\* and the upload that arrived next was answered 401 although it carried
\* files.
C1_Witness ==
    \E r \in Slots :
        /\ IsUpload(reqs[r]) /\ reqs[r].after = "failed"
        /\ SERVICE_ACCOUNT # UndefinedV
        /\ reqs[r].input # <<>>
        /\ reqs[r].pc = "done" /\ reqs[r].status = 401

\* What holds of C1: the Hono server, whose validation route has no
\* middleware in front of it, gates every upload.
C1_CredentialGatingHono ==
    \A r \in Slots : (IsUpload(reqs[r]) /\ reqs[r].after # "ok" /\ server = "hono") =>
        /\ reqs[r].calls = <<>>
        /\ reqs[r].log = <<>>
        /\ reqs[r].pc = "done" /\ reqs[r].status = 401

\* The files a form carries for /upload-collection, and what their texts
\* hold.
InputFiles(q) == MulterFiles(q.input, "collections")

FileValue(file) == JsonParse(file.buffer)

\* Malformed JSON, an empty object, or a top level that is neither an object
\* nor an array.
IsBadFile(file) ==
    \/ FileValue(file).raised
    \/ FileValue(file).value = ObjV(<<>>)
    \/ TypeOf(FileValue(file).value) # "object"

EventsOf(q, n) == LET OfFile(event) == event.f = n IN SelectSeq(q.log, OfFile)

\* A commit of file n failed on the last attempt (Express).
RetriesExhausted(q, n) ==
    \E k \in 1..Len(q.log) :
        /\ q.log[k].f = n /\ q.log[k].e = "answer"
        /\ q.log[k].out = "fail" /\ q.log[k].attempt = retries

\* No write of file n got a failing answer.
WritesSucceeded(q, n) ==
    \A k \in 1..Len(q.log) :
        (q.log[k].f = n /\ q.log[k].e = "answer") => q.log[k].out = "ok"

\* The name under which file n is reported: the file name without its
\* extension.
ReportedName(file) == SubSeq(file.originalname, 1, Len(file.originalname) - 1)

\* An accepted upload that carried files and, on Hono, got its token
\* response.
IsProcessedUpload(q) ==
    /\ IsUpload(q) /\ q.pc = "done" /\ q.after = "ok"
    /\ Len(InputFiles(q)) > 0
    /\ ~TokenFailed(q)

FileIsolated(q, n) ==
    LET file == InputFiles(q)[n]
        res == q.body.results[n]
    IN  /\ res.collection = ReportedName(file)
        /\ (IsBadFile(file) \/ RetriesExhausted(q, n)) => "error" \in DOMAIN res
        /\ (~IsBadFile(file) /\ WritesSucceeded(q, n)) =>
              /\ "error" \notin DOMAIN res
              /\ res.documentsUploaded = res.totalDocuments
              /\ server = "hono" => res.success

\* C4 (as stated): per-file failure isolation.  In a multi-file upload, in
\* every order of the files, the call is answered 200 (never 500), every
\* file has its entry in the result list, a file that fails (malformed JSON,
\* empty object, non-object/array top level, or a commit that failed on the
\* last attempt) has an error field there, the files after it are still
\* processed, and a well-formed file whose writes succeed is reported as a
\* success.
C4_PerFileIsolation ==
    \A r \in Slots : IsProcessedUpload(reqs[r]) =>
        /\ reqs[r].status = 200
        /\ Len(reqs[r].body.results) = Len(InputFiles(reqs[r]))
        /\ \A n \in 1..Len(InputFiles(reqs[r])) : FileIsolated(reqs[r], n)

\* The part of C4 that holds: the Express version isolates the files of
\* every form, and the Hono version those of a form with one file.
C4_IsolationWhereMet ==
    \A r \in Slots :
        (IsProcessedUpload(reqs[r])
            /\ (server = "express" \/ Len(InputFiles(reqs[r])) = 1)) =>
        /\ reqs[r].status = 200
        /\ Len(reqs[r].body.results) = Len(InputFiles(reqs[r]))
        /\ \A n \in 1..Len(InputFiles(reqs[r])) : FileIsolated(reqs[r], n)

\* A non-empty object whose every value is an object.
IsKeyedObject(v) ==
    /\ v.k = "object" /\ DOMAIN v.fields # {}
    /\ \A key \in DOMAIN v.fields : TypeOf(v.fields[key]) = "object"

\* The fields of a value without the reserved key.
OwnFields(v) == [key \in DOMAIN Spread(v) \ {"_id"} |-> Spread(v)[key]]

\* The documents a keyed object asks for: one per key, in key order.
KeyedDocuments(v) ==
    [n \in 1..Len(ObjectKeys(v)) |->
        [docId |-> StrV(IF ObjectKeys(v)[n] = "" THEN <<>> ELSE <<ObjectKeys(v)[n]>>),
         data |-> ObjV(OwnFields(v.fields[ObjectKeys(v)[n]]))]]

\* The writes the Hono version sent for file n, as document id and fields.
HWritesOf(q, n) ==
    LET IsWrite(event) == event.e = "write"
        writes == SelectSeq(EventsOf(q, n), IsWrite)
    IN  [k \in 1..Len(writes) |->
            [docId |-> writes[k].docId, fields |-> writes[k].fields]]

\* The batches the Express version committed for file n (first attempts).
XBatchesOf(q, n) ==
    LET IsFirst(event) == event.e = "commit" /\ event.attempt = 1
        commits == SelectSeq(EventsOf(q, n), IsFirst)
    IN  [k \in 1..Len(commits) |-> commits[k].batch]

\* The file the Hono version processes: the last one of the form.
HProcessed(q) == Len(InputFiles(q))

IdsDerived(q, n) ==
    LET value == FileValue(InputFiles(q)[n]).value
        asked == KeyedDocuments(value)
    IN  IF server = "hono"
        THEN HWritesOf(q, 1) =
                [k \in 1..Len(asked) |->
                    [docId |-> asked[k].docId,
                     fields |-> ConvertToFirestoreFields(asked[k].data.fields)]]
        ELSE XBatchesOf(q, n) = <<asked>>

\* C7 (as stated): id derivation.  A file whose top-level JSON is a
\* non-empty object whose every value is an object produces exactly one
\* document per key, written under the id equal to that key, with exactly
\* the fields of the key's value and no _id field among them.
C7_IdDerivation ==
    \A r \in Slots : IsProcessedUpload(reqs[r]) =>
        \A n \in 1..Len(InputFiles(reqs[r])) :
            (/\ ~FileValue(InputFiles(reqs[r])[n]).raised
             /\ IsKeyedObject(FileValue(InputFiles(reqs[r])[n]).value)
             /\ server = "hono" => n = HProcessed(reqs[r]))
            => IdsDerived(reqs[r], n)

\* The part of C7 that holds: the same, for keyed objects none of whose keys
\* is the empty string.
C7_IdDerivationNamedKeys ==
    \A r \in Slots : IsProcessedUpload(reqs[r]) =>
        \A n \in 1..Len(InputFiles(reqs[r])) :
            (/\ ~FileValue(InputFiles(reqs[r])[n]).raised
             /\ IsKeyedObject(FileValue(InputFiles(reqs[r])[n]).value)
             /\ "" \notin DOMAIN FileValue(InputFiles(reqs[r])[n]).value.fields
             /\ server = "hono" => n = HProcessed(reqs[r]))
            => IdsDerived(reqs[r], n)

\* Stages 1-3 passed: structure valid, a token obtained, project ACTIVE.
ThreeStagesPassed(q) ==
    /\ q.obs.structure = "valid"
    /\ q.obs.token = "ok_token"
    /\ q.obs.project = "active"

C10_ValidIffThreeStages ==
    \A r \in Slots : (IsHonoValidation(reqs[r]) /\ reqs[r].pc = "done") =>
        /\ reqs[r].validationResult.valid = ThreeStagesPassed(reqs[r])
        /\ (reqs[r].status = 200) = ThreeStagesPassed(reqs[r])

C10_TrustOnlyAfterValid ==
    (server = "hono" /\ ~isValidServiceAccount /\ isValidServiceAccount') =>
        \E r \in Slots :
            /\ reqs[r].pc # "done" /\ reqs'[r].pc = "done"
            /\ reqs'[r].kind = "validate"
            /\ reqs'[r].validationResult.valid
            /\ ThreeStagesPassed(reqs'[r])

\* C10: validateServiceAccountComplete returns valid = true if and only if
\* the structural check passed, an access token was obtained and the project
\* reported state ACTIVE, whatever the database probe and the key validity
\* check answered; and the trust flag becomes true only in the step that
\* ends a validation with such a valid result.
C10_OverallValidity ==
    [](C10_ValidIffThreeStages) /\ [][C10_TrustOnlyAfterValid]_vars

\* C10 witness: a key that passed stages 1-3 is valid and trusted although
\* the database probe failed and the key is expired.
C10_Witness ==
    \E r \in Slots :
        /\ IsHonoValidation(reqs[r]) /\ reqs[r].pc = "done"
        /\ reqs[r].obs.database = "fail" /\ reqs[r].obs.keys = "expired"
        /\ reqs[r].validationResult.valid /\ reqs[r].status = 200
        /\ isValidServiceAccount

(***************************************************************************)
(* Claims on the batch writers (SpecBatch)                                 *)
(***************************************************************************)
IsWriter(q) == q.kind \in {"upload", "script"}

\* The list of documents a writer was given and its batch size.
GivenDocuments(q) ==
    IF q.kind = "script" THEN q.documents
    ELSE FileValue(InputFiles(q)[1]).value.items

BatchSizeOf(q) == IF q.kind = "script" THEN q.batchSize ELSE batchSize

Ceil(n, size) == (n + size - 1) \div size

CommitsOf(q) == LET IsCommit(event) == event.e = "commit" IN SelectSeq(q.log, IsCommit)

AllCommitsSucceeded(q) ==
    \A k \in 1..Len(q.log) : q.log[k].e = "answer" => q.log[k].out = "ok"

RECURSIVE Concat(_)
Concat(batches) ==
    IF batches = <<>> THEN <<>> ELSE Head(batches) \o Concat(Tail(batches))

CommittedData(q) ==
    LET docs == Concat([k \in 1..Len(CommitsOf(q)) |-> CommitsOf(q)[k].batch])
    IN  [k \in 1..Len(docs) |-> docs[k].data]

\* C2: batch partition completeness.  For a list of N >= 0 documents and a
\* batch size B >= 1, a writer all of whose commits succeeded has issued
\* exactly ceil(N/B) commits, each of 1..B documents, and the batches one
\* after the other are the input list: contiguous runs in input order, every
\* document in exactly one batch.
C2_BatchPartition ==
    \A r \in Slots :
        (IsWriter(reqs[r]) /\ reqs[r].pc = "done" /\ AllCommitsSucceeded(reqs[r])) =>
        LET q == reqs[r]
            N == Len(GivenDocuments(q))
            B == BatchSizeOf(q)
        IN  /\ Len(CommitsOf(q)) = Ceil(N, B)
            /\ \A k \in 1..Len(CommitsOf(q)) :
                  Len(CommitsOf(q)[k].batch) \in 1..B
            /\ CommittedData(q) = GivenDocuments(q)

\* C2 witness: the Express writer has put 31 documents in batches of 15, 15
\* and 1.
C2_Witness ==
    \E r \in Slots :
        /\ reqs[r].kind = "upload" /\ reqs[r].pc = "done"
        /\ AllCommitsSucceeded(reqs[r])
        /\ Len(GivenDocuments(reqs[r])) = 2 * batchSize + 1
        /\ [k \in 1..Len(CommitsOf(reqs[r])) |-> Len(CommitsOf(reqs[r])[k].batch)]
              = <<batchSize, batchSize, 1>>

IsExpressUpload(q) == server = "express" /\ q.kind = "upload"

\* The attempts of commitBatchWithRetry on one batch are numbered from 1,
\* each later one follows a failed attempt and its delay, and none is
\* numbered above retries.
AttemptsChained(q) ==
    \A k \in 1..Len(q.log) : q.log[k].e = "commit" =>
        /\ q.log[k].attempt \in 1..retries
        /\ q.log[k].attempt > 1 =>
              /\ k > 3
              /\ q.log[k - 1].e = "backoff"
              /\ q.log[k - 2].e = "answer" /\ q.log[k - 2].out = "fail"
              /\ q.log[k - 2].attempt = q.log[k].attempt - 1
              /\ q.log[k - 3].e = "commit" /\ q.log[k - 3].batch = q.log[k].batch
              /\ q.log[k - 3].attempt = q.log[k].attempt - 1

\* A failed attempt that is not the last one is followed by another attempt
\* on the same batch; the last one ends the file with that attempt's error.
FailuresHandled(q) ==
    \A k \in 1..Len(q.log) :
        (q.log[k].e = "answer" /\ q.log[k].out = "fail") =>
            IF q.log[k].attempt < retries
            THEN /\ k + 1 <= Len(q.log)
                 /\ q.log[k + 1].e = "backoff"
                 /\ q.pc = "backoff" \/ k + 2 <= Len(q.log)
            ELSE /\ \A j \in (k + 1)..Len(q.log) : q.log[j].f # q.log[k].f
                 /\ Len(q.results) >= q.log[k].f
                 /\ q.results[q.log[k].f].error = CommitError(retries)

\* A successful attempt ends the work on its batch: the next commit, if any,
\* is the first attempt on another batch.
SuccessEnds(q) ==
    \A k \in 1..Len(q.log) :
        (q.log[k].e = "answer" /\ q.log[k].out = "ok") =>
            /\ q.log[k - 1].e = "commit"
            /\ \A j \in (k + 1)..Len(q.log) : q.log[j].e = "commit" =>
                  q.log[j].batch # q.log[k - 1].batch
            /\ k + 2 <= Len(q.log) => q.log[k + 2].attempt = 1

\* C3: retry bound.  A batch whose commit fails on every attempt gets
\* exactly retries (3) attempts, then the last error is raised; an attempt
\* that succeeds is the last one on its batch; the batches committed before
\* a failing batch are not committed again.
C3_RetryBound ==
    \A r \in Slots : IsExpressUpload(reqs[r]) =>
        /\ AttemptsChained(reqs[r])
        /\ FailuresHandled(reqs[r])
        /\ SuccessEnds(reqs[r])

\* C3 witness: the first batch of 15 was committed, the second one failed
\* three times, and the file is reported with the third attempt's error.
C3_Witness ==
    \E r \in Slots :
        /\ IsExpressUpload(reqs[r]) /\ reqs[r].pc = "done"
        /\ Len(CommitsOf(reqs[r])) = 1 + retries
        /\ [k \in 1..Len(CommitsOf(reqs[r])) |-> CommitsOf(reqs[r])[k].attempt]
              = <<1, 1, 2, 3>>
        /\ reqs[r].body.results[1].error = CommitError(retries)

\* The answers that end a batch: the position of a commit's answer in the
\* log, the batch being the commit event right before it.
IsExhausted(q, k) ==
    /\ q.log[k].e = "answer" /\ q.log[k].out = "fail"
    /\ q.log[k].attempt = retries

IsCommitted(q, k) == q.log[k].e = "answer" /\ q.log[k].out = "ok"

\* The writers only ever set documents, wait, and read answers: no delete
\* and no other write is issued.
OnlySetsAndWaits(q) ==
    \A k \in 1..Len(q.log) : q.log[k].e \in {"commit", "answer", "sleep", "backoff"}

ShapeOf(q) == FileValue(InputFiles(q)[1]).value

\* An empty object, or a value that is neither an object nor an array.
IsRejectedShape(v) ==
    v.k \in {"null", "boolean", "number", "string"} \/ v = ObjV(<<>>)

\* The documents each accepted shape stands for.
ShapeDocuments(v) ==
    IF v.k = "array" THEN v.items
    ELSE IF \A key \in DOMAIN v.fields : v.fields[key].k \in {"null", "array", "object"}
    THEN [n \in 1..Len(ObjectKeys(v)) |->
             ObjV([key \in DOMAIN Spread(v.fields[ObjectKeys(v)[n]]) \cup {"_id"} |->
                      IF key = "_id"
                      THEN StrV(IF ObjectKeys(v)[n] = "" THEN <<>> ELSE <<ObjectKeys(v)[n]>>)
                      ELSE Spread(v.fields[ObjectKeys(v)[n]])[key]])]
    ELSE <<v>>

\* The file loop has taken up the file of an accepted upload.
FileTaken(q) == IsUpload(q) /\ q.status # 500 /\ (q.f >= 2 \/ q.pc \notin {"form", "jwt", "token"})

EntriesWithError(results) ==
    LET HasError(res) == "error" \in DOMAIN res IN SelectSeq(results, HasError)

ResultFields == {"collection", "documentsUploaded", "totalDocuments", "success"}

\* C13 (as stated): result shape.  After an upload-collection call that
\* processed its files the result list has one entry per input file, in
\* input order; every entry, failed or not, carries collection,
\* documentsUploaded, totalDocuments and success; error is present exactly
\* on the failed entries; the errors list is exactly the entries with an
\* error.
C13_ResultShape ==
    \A r \in Slots : IsProcessedUpload(reqs[r]) =>
        LET results == reqs[r].body.results
        IN  /\ Len(results) = Len(InputFiles(reqs[r]))
            /\ \A n \in 1..Len(results) :
                  /\ results[n].collection = ReportedName(InputFiles(reqs[r])[n])
                  /\ ResultFields \subseteq DOMAIN results[n]
                  /\ ("error" \in DOMAIN results[n]) = ~results[n].success
            /\ reqs[r].body.errors = EntriesWithError(results)

\* The part of C13 that holds: every entry names its collection, the errors
\* list is the entries with an error, a successful entry carries both
\* counts, and the Express version has one entry per input file in input
\* order.
C13_ResultShapeWhereMet ==
    \A r \in Slots : IsProcessedUpload(reqs[r]) =>
        LET results == reqs[r].body.results
        IN  /\ server = "express" =>
                  /\ Len(results) = Len(InputFiles(reqs[r]))
                  /\ \A n \in 1..Len(results) :
                        results[n].collection = ReportedName(InputFiles(reqs[r])[n])
            /\ \A n \in 1..Len(results) :
                  /\ "collection" \in DOMAIN results[n]
                  /\ "error" \notin DOMAIN results[n] =>
                        {"documentsUploaded", "totalDocuments"} \subseteq DOMAIN results[n]
            /\ reqs[r].body.errors = EntriesWithError(results)

(***************************************************************************)
(* Claims on the backup (SpecBackup)                                       *)
(***************************************************************************)
IsBackup(q) == q.kind = "backup"

\* The list-documents response the request has just handled, if any.
JustRead(q) ==
    /\ IsBackup(q)
    /\ Len(q.log) > 0
    /\ q.log[Len(q.log)].e = "docs"
    /\ q.log[Len(q.log)].response.ok

WireDocsOf(response) ==
    IF "documents" \in DOMAIN response.data THEN response.data.documents ELSE <<>>

WireFieldsOf(doc) == IF "fields" \in DOMAIN doc THEN doc.fields ELSE <<>>

\* The document read from a wire document: it carries the last path segment
\* as id and the decoded value of every wire field.
ReadsAs(document, doc) ==
    /\ document.k = "object"
    /\ "id" \in DOMAIN document.fields
    /\ document.fields.id = SplitPop(doc.name)
    /\ \A key \in DOMAIN WireFieldsOf(doc) :
          /\ key \in DOMAIN document.fields
          /\ document.fields[key] = ParseFirestoreValue(WireFieldsOf(doc)[key])
    /\ DOMAIN document.fields \subseteq {"id"} \cup DOMAIN WireFieldsOf(doc)

ReadCorrectly(q, docs) ==
    /\ Len(q.results) > 0
    /\ q.status # 500
    /\ LET documents == q.results[Len(q.results)].documents
       IN  /\ Len(documents) = Len(docs)
           /\ \A n \in 1..Len(docs) : ReadsAs(documents[n], docs[n])

\* C14: for every document of a list-documents response the backup holds one
\* document whose id is the last path segment of the resource name and whose
\* fields are the decoded wire fields, also when a wire field is named id and
\* when the document has no fields.
C14_DocumentReading ==
    \A r \in Slots : JustRead(reqs[r]) =>
        ReadCorrectly(reqs[r], WireDocsOf(reqs[r].log[Len(reqs[r].log)].response))

\* What holds: the documents are read so when every document of the response
\* has a fields object with no field named id.
C14_DocumentReadingWhereMet ==
    \A r \in Slots : JustRead(reqs[r]) =>
        LET docs == WireDocsOf(reqs[r].log[Len(reqs[r].log)].response)
        IN  (\A n \in 1..Len(docs) :
                "fields" \in DOMAIN docs[n] /\ "id" \notin DOMAIN docs[n].fields)
            => ReadCorrectly(reqs[r], docs)

C14_ReadPlainDocuments ==
    \E r \in Slots :
        /\ JustRead(reqs[r])
        /\ LET docs == WireDocsOf(reqs[r].log[Len(reqs[r].log)].response)
           IN  /\ Len(docs) = MaxWireDocs
               /\ \A n \in 1..Len(docs) :
                     "fields" \in DOMAIN docs[n] /\ "id" \notin DOMAIN docs[n].fields

\* The requests a call of getAccessToken has sent to the token endpoint.
TokenRequests(q) == {n \in 1..Len(q.calls) : q.calls[n].api = "token"}

\* The error names what the token endpoint said: the description if the body
\* has one, else the code.
CarriesUpstream(result, data) ==
    /\ result.raised
    /\ result.message.detail =
          IF "error_description" \in DOMAIN data THEN data.error_description
          ELSE Prop(data, "error")

ValidatedKeys ==
    {WellFormedKey} \cup
    {reqs[r].serviceAccount : r \in {s \in Slots : /\ reqs[s].kind = "validate"
                                                   /\ reqs[s].pc = "done"
                                                   /\ reqs[s].status = 200}}

\* The stored credential and the handle derived from it are those of key.
HoldsKey(key) ==
    IF server = "express" THEN db = Firestore(key) /\ adminApp = key
    ELSE SERVICE_ACCOUNT = JsonStringify(key)

\* C16: whatever the interleaving of two requests at their awaits, while the
\* trust flag is true the stored credential and the database handle are
\* those of a key whose validation succeeded, never those of a validation
\* that failed or has not finished.
C16_AtomicReplacement ==
    isValidServiceAccount => \E key \in ValidatedKeys : HoldsKey(key)

\* What holds: the Hono server stores the key and sets the flag in one run
\* of the handler, after the validation has succeeded.
C16_AtomicReplacementHono ==
    server = "hono" /\ isValidServiceAccount => \E key \in ValidatedKeys : HoldsKey(key)

C16_ReplacedWhileTrusted ==
    /\ server = "hono"
    /\ isValidServiceAccount
    /\ HoldsKey(OtherKey)
    /\ \E r \in Slots : reqs[r].kind = "validate" /\ reqs[r].pc \notin {"idle", "done"}

(***************************************************************************)
(* Claims on the waits of the batch loop (SpecBatch)                       *)
(***************************************************************************)
\* Every wait of commitBatchWithRetry follows the failed attempt k of a
\* batch, lasts 2^k seconds and is followed by attempt k + 1 on the same
\* batch of the same collection.
WaitsDouble(q) ==
    \A k \in 1..Len(q.log) : q.log[k].e = "backoff" =>
        /\ k > 2
        /\ q.log[k - 1].e = "answer" /\ q.log[k - 1].out = "fail"
        /\ q.log[k - 2].e = "commit"
        /\ q.log[k - 2].attempt = q.log[k - 1].attempt
        /\ q.log[k].ms = (2 ^ q.log[k - 1].attempt) * 1000
        /\ q.log[k - 1].attempt > 1 =>
              /\ q.log[k - 3].e = "backoff"
              /\ q.log[k].ms = 2 * q.log[k - 3].ms
        /\ k + 1 <= Len(q.log) =>
              /\ q.log[k + 1].e = "commit"
              /\ q.log[k + 1].attempt = q.log[k - 1].attempt + 1
              /\ q.log[k + 1].batch = q.log[k - 2].batch
              /\ q.log[k + 1].collection = q.log[k - 2].collection

\* Two consecutive attempts on a batch are separated by a wait.
WaitBetweenAttempts(q) ==
    \A k \in 1..Len(q.log) :
        (q.log[k].e = "commit" /\ q.log[k].attempt > 1) =>
            k > 1 /\ q.log[k - 1].e = "backoff"

\* While the handler waits, the wait is the last thing it has done.
NoCommitInWait(q) ==
    q.pc = "backoff" => Len(q.log) > 0 /\ q.log[Len(q.log)].e = "backoff"

\* C17: exponential backoff schedule.  The wait between the failed attempt
\* k and attempt k + 1 of a batch is 2^k seconds (2 s, then 4 s), a wait
\* separates every two consecutive attempts, no commit is issued during a
\* wait, and the retried batch is the same batch with the same documents.
C17_BackoffSchedule ==
    \A r \in Slots : IsExpressUpload(reqs[r]) =>
        /\ WaitsDouble(reqs[r])
        /\ WaitBetweenAttempts(reqs[r])
        /\ NoCommitInWait(reqs[r])

\* C17 witness: a batch was attempted three times, after waits of 2 s and
\* 4 s.
C17_Witness ==
    \E r \in Slots :
        /\ IsExpressUpload(reqs[r])
        /\ \E k \in 1..Len(reqs[r].log) :
              /\ reqs[r].log[k].e = "commit" /\ reqs[r].log[k].attempt = 3
              /\ reqs[r].log[k - 1].e = "backoff" /\ reqs[r].log[k - 1].ms = 4000
              /\ reqs[r].log[k - 4].e = "backoff" /\ reqs[r].log[k - 4].ms = 2000

(***************************************************************************)
(* Claims on the pacing of the writers (SpecPace)                          *)
(***************************************************************************)
IsPacedWriter(q) == q.kind \in {"upload", "script"}

\* The most documents a writer sends between two pacing delays: its batch
\* size, or for the Hono document loop its pacing period.
BatchLimit(q) ==
    IF q.kind = "script" THEN q.batchSize
    ELSE IF server = "express" THEN batchSize ELSE PacingPeriod

IsDelay(event) == event.e = "sleep"

\* The last pacing delay before event k, 0 if there is none.
PrevDelay(q, k) ==
    IF \E j \in 1..(k - 1) : IsDelay(q.log[j])
    THEN CHOOSE j \in 1..(k - 1) :
            IsDelay(q.log[j]) /\ \A m \in (j + 1)..(k - 1) : ~IsDelay(q.log[m])
    ELSE 0

\* The documents event j reports written.
WrittenAt(q, j) ==
    IF q.log[j].e = "answer" /\ q.log[j].out = "ok"
    THEN IF q.log[j - 1].e = "commit" THEN Len(q.log[j - 1].batch) ELSE 1
    ELSE 0

RECURSIVE WrittenIn(_, _, _)
WrittenIn(q, a, k) == IF k <= a THEN 0 ELSE WrittenAt(q, k) + WrittenIn(q, a, k - 1)

\* A later batch of a file starts right after the pacing delay that follows
\* the successful commit of the batch before it.
BatchesSeparated(q) ==
    \A k \in 1..Len(q.log) :
        (/\ q.log[k].e = "commit" /\ q.log[k].attempt = 1
         /\ \E j \in 1..(k - 1) : q.log[j].e = "commit" /\ q.log[j].f = q.log[k].f) =>
            /\ q.log[k - 1].e = "sleep" /\ q.log[k - 1].ms = 1000
            /\ q.log[k - 2].e = "answer" /\ q.log[k - 2].out = "ok"

\* Never more than one batch of documents is written without a delay.
PacedWrites(q) ==
    \A k \in 1..Len(q.log) : WrittenIn(q, PrevDelay(q, k), k) <= BatchLimit(q)

\* C18: inter-batch pacing.  In every writer a delay of 1 s lies between the
\* successful completion of a batch and the start of the next one, and no
\* more than one batch size of documents is written between two delays.
C18_InterBatchPacing ==
    \A r \in Slots : IsPacedWriter(reqs[r]) =>
        BatchesSeparated(reqs[r]) /\ PacedWrites(reqs[r])

\* What holds: the pacing of the two batch writers, the Express loop and
\* the script.
C18_PacingOfBatchWriters ==
    \A r \in Slots : (IsPacedWriter(reqs[r]) /\ server # "hono") =>
        BatchesSeparated(reqs[r]) /\ PacedWrites(reqs[r])

C18_ThreeBatchesPaced ==
    \E r \in Slots :
        /\ IsExpressUpload(reqs[r])
        /\ reqs[r].pc = "done"
        /\ Len(SelectSeq(reqs[r].log, IsDelay)) = 3

(***************************************************************************)
(* Claims on the order of the files of a call (SpecServer)                 *)
(***************************************************************************)
IsRequestSent(event) == event.e \in {"commit", "write"}
IsWait(event) == event.e \in {"sleep", "backoff"}

\* The events of a call are in the order of its files, every write is
\* answered before anything else happens, and a write is in flight, or a
\* wait running, only as the last thing the handler has done, for the file
\* it is working on.
FilesInTurn(q) ==
    /\ \A k \in 1..(Len(q.log) - 1) :
          /\ q.log[k].f <= q.log[k + 1].f
          /\ IsRequestSent(q.log[k]) =>
                q.log[k + 1].e = "answer" /\ q.log[k + 1].f = q.log[k].f
    /\ q.pc \in {"commit", "write"} <=>
          (Len(q.log) > 0 /\ IsRequestSent(q.log[Len(q.log)]))
    /\ q.pc \in {"commit", "write", "pace", "backoff", "sleep"} =>
          q.log[Len(q.log)].f = q.f
    /\ q.pc \in {"pace", "backoff", "sleep"} => IsWait(q.log[Len(q.log)])

\* A run of the handler that begins a wait ends with it: nothing is sent
\* until the wait is over.
WaitsAwaited ==
    \A r \in Slots :
        (\E k \in (Len(reqs[r].log) + 1)..Len(reqs'[r].log) : IsWait(reqs'[r].log[k]))
            => IsWait(reqs'[r].log[Len(reqs'[r].log)])

\* C19: sequential file processing.  Within one upload-collection call every
\* write, retry and pacing wait of file k is over before the first write of
\* file k + 1 starts, and writes of two files are never in flight together.
C19_SequentialFiles ==
    /\ [](\A r \in Slots : IsUpload(reqs[r]) => FilesInTurn(reqs[r]))
    /\ [][WaitsAwaited]_vars

\* C19 witness: a call with two files has written both, the second after
\* the pause that followed the first.
C19_Witness ==
    \E r \in Slots :
        /\ IsExpressUpload(reqs[r])
        /\ reqs[r].pc = "done"
        /\ \E k \in 2..Len(reqs[r].log) :
              /\ reqs[r].log[k].e = "commit" /\ reqs[r].log[k].f = 2
              /\ reqs[r].log[k - 1].e = "sleep" /\ reqs[r].log[k - 1].f = 1

(***************************************************************************)
(* Claims on the reserved key (SpecServer)                                 *)
(***************************************************************************)
\* The field names persisted for a document by a write of either server.
PersistedKeys(data) == IF data.k = "object" THEN DOMAIN data.fields ELSE {}

\* The documents an event sends to the store, with the id each is sent under.
SentDocuments(event) ==
    IF event.e = "write"
    THEN {[docId |-> event.docId, keys |-> DOMAIN event.fields]}
    ELSE IF event.e = "commit"
    THEN {[docId |-> event.batch[n].docId, keys |-> PersistedKeys(event.batch[n].data)] :
             n \in 1..Len(event.batch)}
    ELSE {}

\* C20: reserved key stripping.  Whatever the value of a document's _id key,
\* the fields persisted for the document never contain the key _id.
C20_ReservedKeyStripped ==
    \A r \in Slots : IsUpload(reqs[r]) =>
        \A k \in 1..Len(reqs[r].log) :
            \A sent \in SentDocuments(reqs[r].log[k]) : "_id" \notin sent.keys

\* What holds: a document that is written under its own _id, which is then
\* a truthy value, is persisted without the key.
C20_StrippedWhenUsed ==
    \A r \in Slots : IsUpload(reqs[r]) =>
        \A k \in 1..Len(reqs[r].log) :
            \A sent \in SentDocuments(reqs[r].log[k]) :
                sent.docId.k # "synth" => "_id" \notin sent.keys

C20_WrittenUnderOwnId ==
    \E r \in Slots :
        /\ IsUpload(reqs[r])
        /\ \E k \in 1..Len(reqs[r].log) :
              \E sent \in SentDocuments(reqs[r].log[k]) : sent.docId = StrV(<<"u1">>)

(***************************************************************************)
(* Claims on synthesized ids (SpecServer)                                  *)
(***************************************************************************)
\* The documents a call has sent for the first time, each with the place in
\* the log it was sent at.
FirstSent(q) ==
    {[k |-> k, n |-> 1, collection |-> q.log[k].collection, docId |-> q.log[k].docId] :
        k \in {j \in 1..Len(q.log) : q.log[j].e = "write"}}
    \cup UNION {{[k |-> k, n |-> n, collection |-> q.log[k].collection,
                  docId |-> q.log[k].batch[n].docId] : n \in 1..Len(q.log[k].batch)} :
                k \in {j \in 1..Len(q.log) : q.log[j].e = "commit" /\ q.log[j].attempt = 1}}

IsSynthesized(id) == id.k = "synth"

\* C21: synthesized id uniqueness.  Within one upload call two distinct
\* documents without a usable _id that go to the same collection get
\* different synthesized ids, also when the clock never advances.
C21_SynthesizedIdsUnique ==
    \A r \in Slots : IsUpload(reqs[r]) =>
        \A a, b \in FirstSent(reqs[r]) :
            (/\ <<a.k, a.n>> # <<b.k, b.n>>
             /\ a.collection = b.collection
             /\ IsSynthesized(a.docId) /\ IsSynthesized(b.docId))
                => a.docId # b.docId

\* C21 witness: an Express call has written two files of the same name, each
\* with documents that carry no _id.
C21_Witness ==
    \E r \in Slots :
        /\ IsExpressUpload(reqs[r])
        /\ reqs[r].pc = "done"
        /\ \E a, b \in FirstSent(reqs[r]) :
              /\ a.k < b.k /\ a.collection = b.collection
              /\ a.docId = AutoId(1, 0) /\ b.docId = AutoId(2, 0)

\* The same for the script (SpecBatch), whose ids are doc_1, doc_2, ...
C21_ScriptIdsUnique ==
    \A r \in Slots : reqs[r].kind = "script" =>
        \A a, b \in FirstSent(reqs[r]) :
            <<a.k, a.n>> # <<b.k, b.n>> => a.docId # b.docId

(***************************************************************************)
(* Claims on the life of an access token (SpecLifetime)                    *)
(***************************************************************************)
\* The requests an operation has sent to the store or to the Google APIs
\* with a bearer token.
BearerRequests(q) ==
    {q.calls[n] : n \in {m \in 1..Len(q.calls) : q.calls[m].api # "token"}}
    \cup {q.log[k] : k \in {j \in 1..Len(q.log) : q.log[j].e = "write"}}

\* The operation's token is the one its own exchange returned; before the
\* exchange it has none.
TokenOfOwnExchange(q) ==
    /\ Len(q.exchange) <= 1
    /\ Len(q.exchange) = 0 => q.accessToken = UndefinedV /\ BearerRequests(q) = {}
    /\ \A sent \in BearerRequests(q) :
          /\ Len(q.exchange) = 1 /\ ~q.exchange[1].result.raised
          /\ sent.token = q.exchange[1].result.value

\* C22: token lifetime.  Each operation obtains its access token afresh, no
\* token is kept for a later request, and no request carries a token more
\* than 3600 seconds after the token was issued, however long the
\* operation lasts.
C22_TokenLifetime ==
    \A r \in Slots :
        /\ TokenOfOwnExchange(reqs[r])
        /\ \A sent \in BearerRequests(reqs[r]) : sent.at <= TokenLifetime

\* What holds: the token is obtained per operation and not kept.
C22_TokenPerOperation ==
    \A r \in Slots : TokenOfOwnExchange(reqs[r])

C22_WrittenWithOwnToken ==
    \E r \in Slots :
        /\ reqs[r].kind = "upload" /\ reqs[r].pc = "done" /\ reqs[r].after = "ok"
        /\ \E sent \in BearerRequests(reqs[r]) :
              sent.token = Token(WellFormedKey) /\ sent.at > 0

(***************************************************************************)
(* Claims on failed authentication (SpecLifetime)                          *)
(***************************************************************************)
\* getAccessToken has raised: the assertion could not be signed, or the
\* token endpoint refused or did not answer.
AcquisitionFailed(q) == q.obs.jwt = "throw" \/ q.obs.token = "fail"

\* Nothing but the token request has left the server for this operation.
NothingSentToStore(q) ==
    /\ \A n \in 1..Len(q.calls) : q.calls[n].api = "token"
    /\ \A k \in 1..Len(q.log) : q.log[k].e \notin {"write", "ids", "docs", "answer"}

\* C23: authentication failure blocks the operation.  When the token
\* acquisition of an upload-collection or backup fails, no request goes to
\* the document store and the operation answers with an error; when the
\* structural check of a validation fails, no token request and no other
\* network call is made.
C23_AuthFailureBlocks ==
    \A r \in Slots :
        /\ (reqs[r].kind \in {"upload", "backup"} /\ AcquisitionFailed(reqs[r])) =>
              /\ NothingSentToStore(reqs[r])
              /\ reqs[r].pc = "done" /\ reqs[r].status = 500
              /\ ~reqs[r].body.success
        /\ (reqs[r].kind = "validate" /\ reqs[r].obs.structure \in {"invalid", "raised"}) =>
              /\ reqs[r].calls = <<>>
              /\ reqs[r].exchange = <<>>
              /\ reqs[r].obs.jwt = "none"
              /\ reqs[r].pc = "done" /\ reqs[r].status = 400

\* C23 witness: the token endpoint has refused a backup.
C23_Witness ==
    \E r \in Slots :
        /\ reqs[r].kind = "backup"
        /\ reqs[r].obs.token = "fail"
        /\ reqs[r].pc = "done"

(***************************************************************************)
(* Claims on the requests of a backup (SpecBackup)                         *)
(***************************************************************************)
RECURSIVE Repeat(_, _)
Repeat(x, n) == IF n = 0 THEN <<>> ELSE Append(Repeat(x, n - 1), x)

\* The list-documents requests a backup has sent.
DocsRequests(q) == Cardinality({n \in 1..Len(q.calls) : q.calls[n].api = "listDocuments"})

\* A request of the backup has failed.
BackupFailed(q) ==
    \/ AcquisitionFailed(q)
    \/ \E k \in 1..Len(q.log) :
          \/ q.log[k].e = "ids" /\ GetRootCollectionIds(q.log[k].response).raised
          \/ q.log[k].e = "docs" /\ GetDocumentsInCollection(q.log[k].response).raised

\* C24: backup request sequence.  A backup sends one token exchange, then
\* one list-collection-ids request, then one list-documents request per
\* returned collection id in the order of the ids; if a request fails the
\* backup answers with an error and no partial collection list.
C24_BackupSequence ==
    \A r \in Slots : IsBackup(reqs[r]) =>
        LET q == reqs[r] IN
        /\ \E m \in 0..Len(q.collections) :
              Apis(q) \in {<<>>, <<"token">>, <<"token", "listCollectionIds">>
                                              \o Repeat("listDocuments", m)}
        /\ \A n \in 1..Len(q.results) : q.results[n].collection = q.collections[n]
        /\ q.pc = "docs" =>
              /\ DocsRequests(q) = Len(q.results) + 1
              /\ q.collectionName = q.collections[DocsRequests(q)]
        /\ (q.pc = "done" /\ q.status = 200) =>
              /\ ~BackupFailed(q)
              /\ DocsRequests(q) = Len(q.collections)
              /\ Len(q.results) = Len(q.collections)
              /\ q.body.collections = q.results
        /\ BackupFailed(q) =>
              /\ q.pc = "done" /\ q.status = 500
              /\ "collections" \notin DOMAIN q.body

\* C24 witness: the second of two collections could not be read.
C24_Witness ==
    \E r \in Slots :
        /\ IsBackup(reqs[r])
        /\ Len(reqs[r].collections) = 2
        /\ Len(reqs[r].results) = 1
        /\ reqs[r].pc = "done" /\ reqs[r].status = 500

(***************************************************************************)
(* Claims on the credential of the writes (SpecCred)                       *)
(***************************************************************************)
\* The validations answered with success before request r.
ValidatedBefore(r) ==
    {s \in 1..(r - 1) : reqs[s].kind = "validate" /\ reqs[s].status = 200}

\* The key of the most recent of them.
LastValidatedKey(r) ==
    reqs[CHOOSE s \in ValidatedBefore(r) : \A t \in ValidatedBefore(r) : t <= s].serviceAccount

\* The credential a server writes with when it trusts key: the database
\* handle of the key's app, or the key itself.
CredentialOf(key) == IF server = "express" THEN Firestore(key) ELSE key

WritesOf(q) == {k \in 1..Len(q.log) : IsRequestSent(q.log[k])}

WritesWithValidated(r) ==
    \A k \in WritesOf(reqs[r]) :
        /\ ValidatedBefore(r) # {}
        /\ reqs[r].log[k].via = CredentialOf(LastValidatedKey(r))

\* C25: writes use only the validated credential.  After any sequence of
\* validations, backups and uploads, every write of an upload-collection is
\* made with the credential of the most recent successful validation; a
\* backup with another or an invalid credential changes nothing in that.
C25_ValidatedCredentialOnly ==
    \A r \in Slots : IsUpload(reqs[r]) => WritesWithValidated(r)

\* What holds: the Hono server writes with the key its last successful
\* validation stored, whatever backups came in between.
C25_ValidatedCredentialHono ==
    \A r \in Slots : (IsUpload(reqs[r]) /\ server = "hono") => WritesWithValidated(r)

C25_WrittenAfterBackup ==
    \E r \in Slots :
        /\ IsUpload(reqs[r]) /\ server = "hono" /\ r = 3
        /\ WritesOf(reqs[r]) # {}
        /\ reqs[2].kind = "backup" /\ reqs[2].status = 200
        /\ reqs[2].serviceAccount = OtherKey
        /\ LastValidatedKey(r) = WellFormedKey

\* The Express server has written with the key of a backup.
C25_WrittenWithBackupKey ==
    \E r \in Slots :
        /\ IsExpressUpload(reqs[r]) /\ r = 3
        /\ reqs[1].kind = "validate" /\ reqs[1].status = 200
        /\ reqs[1].serviceAccount = WellFormedKey
        /\ reqs[2].kind = "backup" /\ reqs[2].serviceAccount = OtherKey
        /\ \E k \in WritesOf(reqs[r]) : reqs[r].log[k].via = Firestore(OtherKey)

\* C26: trust revocation.  Every validate-service-account request that
\* ends with a non-success response leaves isValidServiceAccount false,
\* also after an earlier success: the flag is true only while the most
\* recently completed validation request succeeded.
C26_TrustRevocation == isValidServiceAccount => lastValidation = "ok"

\* What holds: every response the route handlers themselves produce lowers
\* the flag unless it is the 200, so the Hono server keeps the property.
C26_HandlerRevokes ==
    /\ server = "hono" => C26_TrustRevocation
    /\ \A r \in Slots :
          (reqs[r].kind = "validate" /\ reqs[r].pc = "done" /\ reqs[r].status = 400)
              => ~isValidServiceAccount \/ lastValidation = "ok"

\* A validation of the Hono server failed after an earlier one had
\* succeeded, and the flag is down.
C26_RevokedAfterSuccess ==
    /\ server = "hono" /\ lastValidation = "failed" /\ ~isValidServiceAccount
    /\ SERVICE_ACCOUNT # UndefinedV
    /\ \E r \in Slots : IsHonoValidation(reqs[r]) /\ reqs[r].pc = "done"
                          /\ reqs[r].status # 200

\* The Express server answered a validation 500 and still trusts the key
\* of the validation before it.
C26_RejectedStillTrusted ==
    /\ server = "express" /\ lastValidation = "failed" /\ isValidServiceAccount
    /\ \E r \in Slots : reqs[r].kind = "validate" /\ reqs[r].pc = "done"
                          /\ reqs[r].status = 500

(***************************************************************************)
(* Claims on the summary and the counts of an upload                       *)
(***************************************************************************)
\* An upload-collection request the Hono server answered with a summary.
IsSummarized(q) ==
    /\ IsUpload(q) /\ server = "hono" /\ q.pc = "done" /\ q.status = 200
    /\ "summary" \in DOMAIN q.body

\* The entries of a result list that satisfy neither filter of the summary.
Uncounted(results) ==
    {n \in 1..Len(results) : ~results[n].success /\ "error" \notin DOMAIN results[n]}

\* C27: summary partition.  In the summary of every upload-collection
\* response each input file is counted as successful or as failed, never
\* as both or neither: successfulFiles + failedFiles = totalFiles, for
\* well-formed, malformed, empty-array and all-writes-rejected files.
C27_SummaryPartition ==
    \A r \in Slots : IsSummarized(reqs[r]) =>
        LET summary == reqs[r].body.summary
        IN  summary.successfulFiles + summary.failedFiles = summary.totalFiles

\* What holds: no entry is counted twice, and the files missing from the
\* two counts are those whose entry has no error and no written document.
C27_SummaryWhereMet ==
    \A r \in Slots : IsSummarized(reqs[r]) =>
        LET summary == reqs[r].body.summary
            results == reqs[r].body.results
        IN  /\ \A n \in 1..Len(results) :
                  ~(results[n].success /\ "error" \in DOMAIN results[n])
            /\ summary.successfulFiles + summary.failedFiles + Cardinality(Uncounted(results))
                  = Len(results)
            /\ \A n \in Uncounted(results) : results[n].documentsUploaded = 0
            /\ Len(results) <= summary.totalFiles

\* An empty array was counted neither as successful nor as failed.
C27_EmptyArrayUncounted ==
    \E r \in Slots :
        /\ IsSummarized(reqs[r])
        /\ reqs[r].body.summary = [totalFiles |-> 1, successfulFiles |-> 0,
                                    failedFiles |-> 0, totalDocumentsUploaded |-> 0]
        /\ reqs[r].body.results[1].totalDocuments = 0

\* A file all of whose writes were rejected was counted neither way.
C27_AllRejectedUncounted ==
    \E r \in Slots :
        /\ IsSummarized(reqs[r])
        /\ reqs[r].body.summary.successfulFiles + reqs[r].body.summary.failedFiles = 0
        /\ reqs[r].body.results[1].totalDocuments = 2
        /\ reqs[r].body.results[1].documentsUploaded = 0

\* The number of documents of file n whose write the store has acknowledged
\* among the first k events: one per PATCH answered ok, and the size of the
\* batch per commit answered ok.
RECURSIVE AcknowledgedUpTo(_, _, _)
AcknowledgedUpTo(q, n, k) ==
    IF k < 2 THEN 0
    ELSE AcknowledgedUpTo(q, n, k - 1) +
         (IF q.log[k].e = "answer" /\ q.log[k].f = n /\ q.log[k].out = "ok"
          THEN IF q.log[k - 1].e = "commit" THEN Len(q.log[k - 1].batch) ELSE 1
          ELSE 0)

Acknowledged(q, n) == AcknowledgedUpTo(q, n, Len(q.log))

RECURSIVE SumUploaded(_, _)
SumUploaded(results, n) ==
    IF n = 0 THEN 0
    ELSE SumUploaded(results, n - 1) +
         (IF "documentsUploaded" \in DOMAIN results[n]
          THEN results[n].documentsUploaded ELSE 0)

InDocumentLoop(q) == q.pc \in {"write", "sleep", "commit", "backoff", "pace"}

\* The count a result entry reports; the summary reads a missing one as 0.
Reported(res) ==
    IF "documentsUploaded" \in DOMAIN res THEN res.documentsUploaded ELSE 0

\* C28: upload count accuracy.  For every file, documentsUploaded is the
\* number of its documents whose write the store acknowledged, each counted
\* once, a rejected or failed write never: at every point of the loop
\* 0 <= successCount <= totalDocuments, and totalDocumentsUploaded is the
\* sum of documentsUploaded over the result entries.
C28_CountAccuracy ==
    \A r \in Slots : IsUpload(reqs[r]) =>
        LET q == reqs[r]
        IN  /\ InDocumentLoop(q) =>
                  /\ q.successCount = Acknowledged(q, q.f)
                  /\ 0 <= q.successCount /\ q.successCount <= Len(q.documents)
            /\ \A n \in 1..Len(q.results) :
                  Reported(q.results[n]) = Acknowledged(q, n)
            /\ (q.pc = "done" /\ q.status = 200 /\ "summary" \in DOMAIN q.body) =>
                  q.body.summary.totalDocumentsUploaded
                      = SumUploaded(q.results, Len(q.results))

\* What holds: the counter is exact at every point of the loop, and so is
\* the count of every entry that reports one.
C28_CountWhereReported ==
    \A r \in Slots : IsUpload(reqs[r]) =>
        LET q == reqs[r]
        IN  /\ InDocumentLoop(q) =>
                  /\ q.successCount = Acknowledged(q, q.f)
                  /\ 0 <= q.successCount /\ q.successCount <= Len(q.documents)
                  /\ q.successCount <= q.i + 1
            /\ \A n \in 1..Len(q.results) :
                  "documentsUploaded" \in DOMAIN q.results[n] =>
                      /\ q.results[n].documentsUploaded = Acknowledged(q, n)
                      /\ 0 <= q.results[n].documentsUploaded
                      /\ q.results[n].documentsUploaded <= q.results[n].totalDocuments
            /\ (q.pc = "done" /\ q.status = 200) =>
                  /\ q.body.results = q.results
                  /\ "summary" \in DOMAIN q.body =>
                        q.body.summary.totalDocumentsUploaded
                            = SumUploaded(q.results, Len(q.results))

\* Of two documents one write was acknowledged and one was rejected, and
\* the file is reported with one uploaded document of two.
C28_RejectedNotCounted ==
    \E r \in Slots :
        /\ IsUpload(reqs[r]) /\ server = "hono"
        /\ reqs[r].pc = "done" /\ reqs[r].status = 200
        /\ \E k \in 1..Len(reqs[r].log) :
               reqs[r].log[k].e = "answer" /\ reqs[r].log[k].out = "rejected"
        /\ \E n \in 1..Len(reqs[r].results) :
               /\ "documentsUploaded" \in DOMAIN reqs[r].results[n]
               /\ reqs[r].results[n].documentsUploaded = 1
               /\ reqs[r].results[n].totalDocuments = 2
        /\ reqs[r].body.summary.totalDocumentsUploaded = 1

\* The store acknowledged a batch of a file whose entry reports no count.
C28_AcknowledgedUnreported ==
    \E r \in Slots :
        /\ IsUpload(reqs[r]) /\ reqs[r].pc = "done" /\ reqs[r].status = 200
        /\ \E n \in 1..Len(reqs[r].results) :
               /\ "error" \in DOMAIN reqs[r].results[n]
               /\ "documentsUploaded" \notin DOMAIN reqs[r].results[n]
               /\ Acknowledged(reqs[r], n) = batchSize

(***************************************************************************)
(* SpecTermination: either server, after a successful validation of a      *)
(* well-formed key, receives uploads of 0..MaxFiles files, each malformed, *)
(* empty or a list of two documents; every write or commit is answered ok  *)
(* or not at will.  A pending timer fires and a                            *)
(* pending network call is answered: every step of a handler that waits   *)
(* is weakly fair.  Arrivals and the closing of connections are not.       *)
(***************************************************************************)
TerminationFiles ==
    {FormFile("collections", <<"broken", ".json">>, BadText),
     CollectionFile("empty", ObjV(<<>>)),
     CollectionFile("list", ArrV(<<DocA, DocB>>))}

TerminationForms ==
    {form \in UploadForms : \A n \in 1..Len(form) : form[n] \in TerminationFiles}

ExpressUpload_ReceiveFiles(r) ==
    /\ server = "express"
    /\ \E form \in TerminationForms :
          Receive(r, [IdleReq EXCEPT !.kind = "upload", !.pc = "form", !.input = form])

HonoUpload_ReceiveFiles(r) ==
    /\ server = "hono"
    /\ \E form \in TerminationForms :
          Receive(r, HUploadGate([IdleReq EXCEPT !.kind = "upload", !.input = form],
                                 Globals).q)

TerminationNext ==
    \E r \in DOMAIN reqs :
        \/ ExpressUpload_ReceiveFiles(r)
        \/ HonoUpload_ReceiveFiles(r)
        \/ ExpressUpload(r)
        \/ HonoUploadSteps(r)
        \/ Close(r)

\* The handler of the request in slot 1 is at the given point.
UploadAt(pc) == IsUpload(reqs[1]) /\ reqs[1].pc = pc

\* Weak fairness of the three steps that run the file loop from its start,
\* written out as []<>~ENABLED \/ []<>step: each is enabled exactly when the
\* handler is at its point, since it then leaves that point.
FileLoopFairness ==
    /\ []<>~(server = "express" /\ UploadAt("form")) \/ []<><<ExpressUpload_Form(1)>>_vars
    /\ []<>~(server = "express" /\ UploadAt("pace")) \/ []<><<ExpressUpload_Pace(1)>>_vars
    /\ []<>~(server = "hono" /\ UploadAt("token")) \/ []<><<HonoUpload_Token(1)>>_vars

SpecTermination ==
    /\ ValidatedInit
    /\ [][TerminationNext]_vars
    /\ WF_vars(ExpressUpload_Commit(1))
    /\ WF_vars(ExpressUpload_Backoff(1))
    /\ WF_vars(HonoUpload_Form(1))
    /\ WF_vars(HonoUpload_Jwt(1))
    /\ WF_vars(HonoUpload_Write(1))
    /\ WF_vars(HonoUpload_Sleep(1))
    /\ FileLoopFairness

\* C29: termination.  For every list of files and every pattern of write
\* successes and failures an upload-collection call eventually returns a
\* response, when timers fire and network calls are answered; and
\* commitBatchWithRetry never makes an attempt beyond its retry ceiling.
C29_Termination ==
    /\ [](IsExpressUpload(reqs[1]) => reqs[1].attempt <= retries)
    /\ (IsUpload(reqs[1]) /\ reqs[1].pc # "done") ~> (reqs[1].pc = "done")

\* C29 witness: an upload of two files was answered although every write
\* of it failed.
C29_Witness ==
    /\ IsUpload(reqs[1]) /\ reqs[1].pc = "done" /\ reqs[1].status = 200
    /\ Len(reqs[1].results) = 2
    /\ \E k \in 1..Len(reqs[1].log) : reqs[1].log[k].e = "answer" /\ reqs[1].log[k].f = 1
    /\ \E k \in 1..Len(reqs[1].log) : reqs[1].log[k].e = "answer" /\ reqs[1].log[k].f = 2
    /\ \A k \in 1..Len(reqs[1].log) :
          reqs[1].log[k].e = "answer" => reqs[1].log[k].out # "ok"

====
